---- MODULE Spec2Model ----
(***************************************************************************)
(* A model of the PSC grid engine, src/src/simsopt/geo/psc_grid.py.        *)
(*                                                                         *)
(* Conventions of the model                                                *)
(*  - Lengths are integers (one unit is a tenth of the length unit of the  *)
(*    examples), coil centers are points of the integer lattice.           *)
(*  - Angles are integers counting quarter turns (k stands for k*pi/2), so *)
(*    that cos and sin are exact; field periods are nfp in {1, 2, 4}, whose*)
(*    rotations map the integer lattice to itself.                         *)
(*  - Every other real number (inductances, fluxes, currents, fields, the  *)
(*    loss) is computed in the prime field Z/P.  The ring operations of the*)
(*    code (sum, product, negation, division, matrix inverse) are          *)
(*    translated one to one, so the algebraic identities of the code are   *)
(*    the ones checked; order between such numbers is not expressible.     *)
(*  - The compiled kernels (simsoptpp) and the collaborators (surfaces,    *)
(*    Biot-Savart evaluator) are not part of the source at hand; they are  *)
(*    fixed functions of exactly the arguments the code passes to them.    *)
(***************************************************************************)
EXTENDS Integers, Sequences, FiniteSets, TLC

(***************************************************************************)
(* Arithmetic in Z/P                                                       *)
(***************************************************************************)
P == 10007

F(x) == x % P
FAdd(x, y) == (x + y) % P
FNeg(x) == (P - (x % P)) % P
FSub(x, y) == (x + P - (y % P)) % P
FMul(x, y) == ((x % P) * (y % P)) % P

RECURSIVE FPow(_, _)
FPow(x, e) ==
  IF e = 0 THEN 1
  ELSE LET h == FPow(x, e \div 2)
           hh == FMul(h, h)
       IN  IF e % 2 = 1 THEN FMul(hh, x) ELSE hh

\* 1 / x; x is not 0 modulo P wherever the model divides
FInv(x) == FPow(x % P, P - 2)
FDiv(x, y) == FMul(x, FInv(y))

\* the constants of the code that are not integers
Half == FDiv(1, 2)
Pi == FDiv(22, 7)

\* an array held by value: the same function, tabulated once
Array(v) == IF v = v THEN v ELSE v

RECURSIVE SeqSum(_)
SeqSum(s) == IF s = <<>> THEN 0 ELSE FAdd(Head(s), SeqSum(Tail(s)))

\* numpy: u @ v for two vectors
Dot(u, v) == SeqSum([i \in 1..Len(u) |-> FMul(u[i], v[i])])
\* numpy: M @ v for a matrix (sequence of rows) and a vector
MatVec(M, v) == Array([i \in 1..Len(M) |-> Dot(M[i], v)])
\* numpy: M @ N
MatMul(M, N) ==
  Array([i \in 1..Len(M) |->
           [j \in 1..(IF N = <<>> THEN 0 ELSE Len(N[1])) |->
              SeqSum([k \in 1..Len(N) |-> FMul(M[i][k], N[k][j])])]])
\* numpy: M.T
Transpose(M) ==
  IF M = <<>> THEN <<>>
  ELSE Array([j \in 1..Len(M[1]) |-> [i \in 1..Len(M) |-> M[i][j]]])
VecAdd(u, v) == Array([i \in 1..Len(u) |-> FAdd(u[i], v[i])])
VecMul(u, v) == Array([i \in 1..Len(u) |-> FMul(u[i], v[i])])
VecScale(u, c) == Array([i \in 1..Len(u) |-> FMul(u[i], c)])
MatAdd(M, N) == [i \in 1..Len(M) |-> VecAdd(M[i], N[i])]
MatScale(M, c) == [i \in 1..Len(M) |-> VecScale(M[i], c)]
\* numpy: M * v, the row vector v broadcast over the rows of M
MulCols(M, v) == [i \in 1..Len(M) |-> VecMul(M[i], v)]
\* numpy: g[:, None] * M
MulRows(g, M) == [i \in 1..Len(M) |-> VecScale(M[i], g[i])]
\* numpy: np.hstack((M, N))
HStack(M, N) == [i \in 1..Len(M) |-> M[i] \o N[i]]
\* numpy: v[lo:hi] with 0-based, end-exclusive bounds
Slice(v, lo, hi) == Array([i \in 1..(hi - lo) |-> v[lo + i]])
\* numpy: M[:n, :n]
Block(M, n) == [i \in 1..n |-> Slice(M[i], 0, n)]
\* numpy: np.zeros
Zeros(n) == [i \in 1..n |-> 0]
ZeroMat(r, c) == [i \in 1..r |-> Zeros(c)]

\* the value standing for the LinAlgError of a singular matrix (no inverse has
\* an empty row)
Singular == <<<<>>>>

\* Gauss-Jordan elimination of the augmented matrix [M | Id], column k on
RECURSIVE GaussJordan(_, _, _)
GaussJordan(A, n, k) ==
  IF k > n THEN A
  ELSE LET cand == {r \in k..n : A[r][k] # 0}
       IN  IF cand = {} THEN Singular
           ELSE LET r  == CHOOSE x \in cand : \A y \in cand : x <= y
                    sw == [i \in 1..n |-> IF i = k THEN A[r] ELSE IF i = r THEN A[k] ELSE A[i]]
                    pv == VecScale(sw[k], FInv(sw[k][k]))
                    el == [i \in 1..n |->
                             IF i = k THEN pv
                             ELSE [j \in 1..(2 * n) |-> FSub(sw[i][j], FMul(sw[i][k], pv[j]))]]
                IN  GaussJordan(Array(el), n, k + 1)

\* numpy: np.linalg.inv(M); raises LinAlgError on a singular matrix
Inv(M) ==
  LET n   == Len(M)
      aug == [i \in 1..n |-> M[i] \o [j \in 1..n |-> IF i = j THEN 1 ELSE 0]]
      red == GaussJordan(aug, n, 1)
  IN  IF red = Singular THEN Singular
      ELSE Array([i \in 1..n |-> Slice(red[i], n, 2 * n)])

(***************************************************************************)
(* Geometry on the integer lattice, angles in quarter turns                *)
(***************************************************************************)
\* np.cos and np.sin at k quarter turns
Cos4(k) == CASE k % 4 = 0 -> 1 [] k % 4 = 1 -> 0 [] k % 4 = 2 -> -1 [] OTHER -> 0
Sin4(k) == CASE k % 4 = 0 -> 0 [] k % 4 = 1 -> 1 [] k % 4 = 2 -> 0 [] OTHER -> -1

\* The sign bit of the floating-point results: np.cos(k*pi/2) and
\* np.sin(k*pi/2) are never exactly -0.0, and where the exact value is 0 the
\* computed one is a residue of the rounding of pi (cos(pi/2) = 6.1e-17,
\* sin(pi) = 1.2e-16, cos(3pi/2) = -1.8e-16, sin(2pi) = -2.4e-16, sin(0) = 0.0;
\* cos is even and sin is odd).  TRUE stands for a set sign bit.
CosNeg(k) == IF Cos4(k) # 0 THEN Cos4(k) < 0 ELSE k % 4 = 3
SinNeg(k) ==
  IF Sin4(k) # 0 THEN Sin4(k) < 0
  ELSE IF k = 0 THEN FALSE
  ELSE IF k > 0 THEN k % 4 = 0 ELSE k % 4 = 2

Abs(x) == IF x < 0 THEN -x ELSE x
Sq(x) == x * x
Dist2(p, q) == Sq(p[1] - q[1]) + Sq(p[2] - q[2]) + Sq(p[3] - q[3])
IDot(u, v) == u[1] * v[1] + u[2] * v[2] + u[3] * v[3]
FVec(u) == [i \in 1..Len(u) |-> F(u[i])]

\* The rotation angle phi0 = (2*pi/nfp)*fp in quarter turns, nfp in {1, 2, 4}
Phi0(nfp, fp) == (4 \div nfp) * fp

(***************************************************************************)
(* The collaborators: plasma boundary and TF field evaluator.  Their data  *)
(* are fixed functions of the quadrature index or of the evaluation point. *)
(***************************************************************************)
\* plasma_boundary.gamma(), one point per quadrature index
PlasmaPoint(k) == <<12 + k, 2 * k - 3, (k % 2) - 1>>
\* plasma_boundary.unitnormal()
PlasmaNormal(k) == <<F(1 + k), F(2), F(3 * k)>>
\* |plasma_boundary.normal()|, and a stand-in for np.sqrt
NormNorm(k) == F(k + 4)
Sqrt(x) == FAdd(FMul(x, x), 1)
\* plasma_boundary.area(), calculate_on_axis_B(...), plasma_boundary.get_rc(0, 0)
PlasmaArea == 7
BAxis == 5
Rc00 == 10
\* BiotSavart(coils_TF).B() at one point
BTF(pt) == <<F(0 - pt[2]), F(pt[1]), F(1 + pt[3] + pt[1] * pt[2])>>
\* InterpolatedField(B_TF, ...).B() at one point: the interpolant differs
InterpB(pt) == <<F(0 - pt[2]), F(pt[1]), F(1 + pt[3])>>
BAt(kind, pt) == IF kind = "InterpolatedField" THEN InterpB(pt) ELSE BTF(pt)
\* gamma_TF.shape[1], the number of quadrature points of a TF curve
NumTFQuad == 128

(***************************************************************************)
(* The compiled kernels (simsoptpp), as functions of their arguments       *)
(***************************************************************************)
\* the angles recovered from a unit normal of the lattice:
\* alpha = -arcsin(n_y), delta = arctan2(n_x, n_z)
AlphaOf(n) == 0 - n[2]
DeltaOf(n) ==
  CASE n[3] > 0 -> 0 [] n[1] > 0 -> 1 [] n[3] < 0 -> 2 [] n[1] < 0 -> -1 [] OTHER -> 0

\* a normal under replica (fp, stell): the map applied to the centers
RotNormal(n, rot, stell) ==
  << n[1] * Cos4(rot) - n[2] * Sin4(rot) * stell,
     n[1] * Sin4(rot) + n[2] * Cos4(rot) * stell,
     n[3] * stell >>

\* a faulty replica order: stell outer, fp inner
ReplicaListStellMajor(nfp, stell_list) ==
  [q \in 1..(nfp * Len(stell_list)) |->
     [fp    |-> (q - 1) % nfp,
      stell |-> stell_list[((q - 1) \div nfp) + 1]]]

\* the replicas in the order of the loops: fp outer, stell inner
ReplicaList(nfp, stell_list) ==
  [q \in 1..(nfp * Len(stell_list)) |->
     [fp    |-> (q - 1) \div Len(stell_list),
      stell |-> stell_list[((q - 1) % Len(stell_list)) + 1]]]

\* sopp.update_alphas_deltas_xsimd(coil_normals, nfp, stellsym)
UpdateKernel(coil_normals, nfp, stellsym) ==
  LET nn   == Len(coil_normals)
      sl   == IF stellsym = 1 THEN <<1, -1>> ELSE <<1>>
      reps == ReplicaList(nfp, sl)
      nq   == Len(reps)
      rp(k) == reps[((k - 1) \div nn) + 1]
      nrm(k) == RotNormal(coil_normals[((k - 1) % nn) + 1],
                          Phi0(nfp, rp(k).fp), rp(k).stell)
      base(k) == coil_normals[((k - 1) % nn) + 1]
  IN  [coil_normals_all |-> [k \in 1..(nn * nq) |-> nrm(k)],
       alphas_total     |-> [k \in 1..(nn * nq) |-> AlphaOf(nrm(k))],
       deltas_total     |-> [k \in 1..(nn * nq) |-> DeltaOf(nrm(k))],
       aaprime_aa |-> [k \in 1..(nn * nq) |-> F(Cos4(Phi0(nfp, rp(k).fp)) * rp(k).stell + base(k)[2] * Sin4(Phi0(nfp, rp(k).fp)))],
       aaprime_dd |-> [k \in 1..(nn * nq) |-> F(Sin4(Phi0(nfp, rp(k).fp)) * base(k)[1])],
       ddprime_dd |-> [k \in 1..(nn * nq) |-> F(rp(k).stell * (1 + Sin4(Phi0(nfp, rp(k).fp)) * base(k)[3]))],
       ddprime_aa |-> [k \in 1..(nn * nq) |-> F(Sin4(Phi0(nfp, rp(k).fp)) * base(k)[3] + (1 - rp(k).stell))]]

\* one entry of the pairwise coupling kernel; not symmetric in (i, j)
Mutual(ci, cj, ai, di, aj, dj) ==
  FAdd(F(2 + Cos4(ai - aj) + 3 * Sin4(di) + 5 * Cos4(dj) + 2 * ai),
       FAdd(FMul(ci[1], cj[2]), FMul(3, cj[3])))

\* sopp.L_matrix(grid_xyz_all_normalized, alphas_total, deltas_total, ...)
LKernel(xyzn, at, dt) ==
  [i \in 1..Len(xyzn) |->
     [j \in 1..Len(xyzn) |->
        IF i = j THEN F(1)
        ELSE Mutual(xyzn[i], xyzn[j], at[i], dt[i], at[j], dt[j])]]

\* the derivative of Mutual(i, j) with respect to the angle of coil k: its
\* alpha (wrt = "alpha") or its delta; angles are counted in quarter turns,
\* so the term 2 * ai has the derivative 4/pi per radian
DMutual(wrt, k, i, j, ai, di, aj, dj) ==
  IF wrt = "alpha"
  THEN FAdd(IF k = i THEN FAdd(F(0 - Sin4(ai - aj)), FDiv(4, Pi)) ELSE 0,
            IF k = j THEN F(Sin4(ai - aj)) ELSE 0)
  ELSE FAdd(IF k = i THEN F(3 * Cos4(di)) ELSE 0,
            IF k = j THEN F(0 - 5 * Sin4(dj)) ELSE 0)

\* sopp.L_deriv_simd(grid_xyz_all_normalized, alphas_total, deltas_total, ...):
\* matrices 1..N are the derivatives of the kernel's matrix with respect to
\* the alphas of the N coils, matrices N+1..2N with respect to their deltas
LDerivKernel(xyzn, at, dt) ==
  LET N == Len(xyzn)
  IN  [k \in 1..(2 * N) |->
        [i \in 1..N |->
          [j \in 1..N |->
             IF i = j THEN 0
             ELSE DMutual(IF k <= N THEN "alpha" ELSE "delta",
                          IF k <= N THEN k ELSE k - N,
                          i, j, at[i], dt[i], at[j], dt[j])]]]

\* the unit normal of a coil with angles (a, d), and its angle derivatives
AngleNormal(a, d) == <<Cos4(a) * Sin4(d), 0 - Sin4(a), Cos4(a) * Cos4(d)>>
DNormalDAlpha(a, d) == <<0 - Sin4(a) * Sin4(d), 0 - Cos4(a), 0 - Sin4(a) * Cos4(d)>>
DNormalDDelta(a, d) == <<Cos4(a) * Cos4(d), 0, 0 - Cos4(a) * Sin4(d)>>
\* a direction in the plane of the coil
InPlane(a, d) == <<Cos4(d), 0, 0 - Sin4(d)>>

\* sopp.flux_xyz(grid_xyz_all, alphas_total, deltas_total, rho, phi):
\* the quadrature points on the face of every coil (one node per coil here)
FluxXYZ(xyz, at, dt, rho) ==
  [k \in 1..Len(xyz) |->
     << xyz[k][1] + rho * InPlane(at[k], dt[k])[1],
        xyz[k][2] + rho * InPlane(at[k], dt[k])[2],
        xyz[k][3] + rho * InPlane(at[k], dt[k])[3] >>]

\* sopp.flux_integration(B, rho, coil_normals_all, weights)
FluxIntegration(B, rho, normals) ==
  [k \in 1..Len(normals) |-> FMul(Dot(B[k], FVec(normals[k])), FMul(Pi, F(rho * rho)))]

\* sopp.A_matrix_simd(xyz, plasma_points, alphas, deltas, plasma_unitnormals, R)
AKernel(xyz, ppts, al, de, pnorm, R) ==
  [p \in 1..Len(ppts) |->
     [j \in 1..Len(xyz) |->
        FAdd(FMul(Dot(FVec(AngleNormal(al[j], de[j])), pnorm[p]), F(R)),
             F(IDot(xyz[j], ppts[p])))]]

\* sopp.dA_dkappa_simd(...): columns 1..nn for alpha, nn+1..2nn for delta
DAKernel(xyz, ppts, al, de, pnorm, R) ==
  [p \in 1..Len(ppts) |->
     [j \in 1..(2 * Len(xyz)) |->
        IF j <= Len(xyz)
        THEN FMul(Dot(FVec(DNormalDAlpha(al[j], de[j])), pnorm[p]), F(R))
        ELSE FMul(Dot(FVec(DNormalDDelta(al[j - Len(xyz)], de[j - Len(xyz)])), pnorm[p]),
                  F(R + xyz[j - Len(xyz)][1]))]]

\* sopp.dpsi_dkappa(I_TF, dl_TF, gamma_TF, xyz, alphas, deltas, normals, ...)
DPsiKernel(xyz, al, de, normals, rho, R) ==
  [j \in 1..(2 * Len(xyz)) |->
     IF j <= Len(xyz)
     THEN FMul(Dot(BTF(xyz[j]), FVec(DNormalDAlpha(al[j], de[j]))), F(rho * R))
     ELSE FMul(Dot(BTF(xyz[j - Len(xyz)]),
                   FVec(DNormalDDelta(al[j - Len(xyz)], de[j - Len(xyz)]))),
               F(rho * R + normals[j - Len(xyz)][2]))]

\* a stand-in for np.log
Ln(x) == FAdd(FMul(x, FMul(x, x)), FAdd(FMul(2, x), 11))

(***************************************************************************)
(* The PSCgrid object: a record of its attributes.  attrs is the set of    *)
(* attributes assigned so far, exc the exception a method ended with.      *)
(***************************************************************************)
\* self.<name> = value, for every field of rec
With(s, rec) ==
  Array([k \in DOMAIN s |->
           IF k \in DOMAIN rec THEN rec[k]
           ELSE IF k = "attrs" THEN s.attrs \cup DOMAIN rec ELSE s[k]])

Raise(s, e) == [s EXCEPT !.exc = e]
\* the statements after a raise are not executed
Then(s, Op(_)) == IF s.exc # "none" THEN s ELSE Op(s)
\* a value computed once and held in a local variable: Op(v)
Let(v, Op(_)) == CHOOSE r \in {Op(x) : x \in {v}} : TRUE

\* arr[q * nn : (q + 1) * nn]
BlockOf(arr, q, nn) == Slice(arr, q * nn, (q + 1) * nn)
\* the number of iterations of "for fp in range(nfp): for stell in stell_list"
NumReplicas(s) == s.nfp * Len(s.stell_list)

\* a faulty update_alphas_deltas: the angles of the fundamental coils are taken
\* as they were passed, not recovered from the normals
update_alphas_deltas_raw(s) ==
  LET u  == UpdateKernel(s.coil_normals, s.nfp, s.stellsym)
      nn == Len(s.coil_normals)
  IN  With(s, [u EXCEPT !.alphas_total =
                          [k \in 1..Len(@) |-> IF k <= nn THEN s.alphas[k] ELSE @[k]],
                        !.deltas_total =
                          [k \in 1..Len(@) |-> IF k <= nn THEN s.deltas[k] ELSE @[k]]])

\* PSCgrid.update_alphas_deltas
update_alphas_deltas(s) ==
  With(s, UpdateKernel(s.coil_normals, s.nfp, s.stellsym))

\* a faulty rotation: replica q is turned by the angle of the next field period
CenterBlockShifted(s, q) ==
  LET rep  == ReplicaList(s.nfp, s.stell_list)[q + 1]
      phi0 == Phi0(s.nfp, rep.fp + 1)
  IN  [i \in 1..s.num_psc |->
         << s.grid_xyz[i][1] * Cos4(phi0) - s.grid_xyz[i][2] * Sin4(phi0) * rep.stell,
            s.grid_xyz[i][1] * Sin4(phi0) + s.grid_xyz[i][2] * Cos4(phi0) * rep.stell,
            s.grid_xyz[i][3] * rep.stell >>]

\* the block of rows nn*q .. nn*(q+1)-1 of grid_xyz_all for replica q
CenterBlock(s, q) ==
  LET rep  == ReplicaList(s.nfp, s.stell_list)[q + 1]
      phi0 == Phi0(s.nfp, rep.fp)
  IN  [i \in 1..s.num_psc |->
         << s.grid_xyz[i][1] * Cos4(phi0) - s.grid_xyz[i][2] * Sin4(phi0) * rep.stell,
            s.grid_xyz[i][1] * Sin4(phi0) + s.grid_xyz[i][2] * Cos4(phi0) * rep.stell,
            s.grid_xyz[i][3] * rep.stell >>]

\* a faulty block assignment: every block is written over the first one
WriteBlockFirst(arr, q, nn, blk) ==
  [k \in 1..Len(arr) |-> IF k <= nn THEN blk[k] ELSE arr[k]]

\* arr[nn * q : nn * (q + 1)] = blk
WriteBlock(arr, q, nn, blk) ==
  [k \in 1..Len(arr) |->
     IF nn * q < k /\ k <= nn * (q + 1) THEN blk[k - nn * q] ELSE arr[k]]

\* the loop of setup_full_grid from iteration q on; acc.w lists the values
\* of q the loop has written a block for
RECURSIVE FullGridLoop(_, _, _)
FullGridLoop(s, q, acc) ==
  IF q >= NumReplicas(s) THEN acc
  ELSE FullGridLoop(s, q + 1,
         [xyz |-> WriteBlock(acc.xyz, q, s.num_psc, CenterBlock(s, q)),
          w   |-> Append(acc.w, q)])

\* PSCgrid.setup_full_grid
setup_full_grid(s) ==
  LET nn   == s.num_psc
      zero == [k \in 1..(nn * s.symmetry) |-> <<0, 0, 0>>]
      res  == FullGridLoop(s, 0, [xyz |-> zero, w |-> <<>>])
  IN  update_alphas_deltas(
        With(s, [grid_xyz_all |-> res.xyz,
                 grid_blocks   |-> res.w,
                 grid_xyz_all_normalized |->
                   [k \in 1..Len(res.xyz) |->
                      [c \in 1..3 |-> FDiv(F(res.xyz[k][c]), F(s.R))]]]))

\* the sign bits of the three components of the normal as computed:
\* cos(a)*sin(d), -sin(a), cos(a)*cos(d)
NormalSign(a, d) ==
  << CosNeg(a) # SinNeg(d), ~SinNeg(a), CosNeg(a) # CosNeg(d) >>

\* the components of the normal that are computed as a rounding residue, a
\* float close to zero but not zero: np.cos is never exactly zero and np.sin
\* is exactly zero at 0.0 only, so a product is +-0.0 only through sin(0.0)
NormalResidue(a, d) ==
  << Cos4(a) * Sin4(d) = 0 /\ d # 0, Sin4(a) = 0 /\ a # 0, Cos4(a) * Cos4(d) = 0 >>

\* a faulty fix: the sign bit of every component is cleared
FixNegZeroAbs(n, neg) == [c \in 1..3 |-> FALSE]

\* coil_normals[isclose(coil_normals, 0) & (copysign(1, coil_normals) < 0)] *= -1
\* on the sign bits of one normal with values n; the product with -1.0 is
\* exact, so the magnitudes (zero, residue or not) stay as computed
FixNegZero(n, neg) == [c \in 1..3 |-> IF n[c] = 0 /\ neg[c] THEN FALSE ELSE neg[c]]

\* np.fill_diagonal(M, v)
FillDiagonal(M, v) ==
  [i \in 1..Len(M) |-> [j \in 1..Len(M[i]) |-> IF i = j THEN v ELSE M[i][j]]]

\* a faulty self-inductance: the 2 subtracted inside the logarithm
SelfInductanceInsideLog(R, a) == FMul(FMul(Ln(FSub(FDiv(FMul(8, F(R)), a), 2)), 4), Pi)

\* (np.log(8.0 * R / a) - 2.0) * 4 * np.pi
SelfInductance(R, a) == FMul(FMul(FSub(Ln(FDiv(FMul(8, F(R)), a)), 2), 4), Pi)

\* a faulty setup_orientations: the kernel's matrix is not added to its transpose
setup_orientations_unsymmetrized(s, alphas, deltas) ==
  LET nn == Len(alphas)
      s1 == With(s, [alphas |-> alphas, deltas |-> deltas,
                     coil_normals |-> [i \in 1..nn |-> AngleNormal(alphas[i], deltas[i])],
                     coil_normals_neg |->
                       [i \in 1..nn |-> FixNegZero(AngleNormal(alphas[i], deltas[i]),
                                                   NormalSign(alphas[i], deltas[i]))],
                     coil_normals_res |->
                       [i \in 1..nn |-> NormalResidue(alphas[i], deltas[i])]])
      s2 == update_alphas_deltas(s1)
      L0 == LKernel(s2.grid_xyz_all_normalized, s2.alphas_total, s2.deltas_total)
      L2 == FillDiagonal(L0, SelfInductance(s2.R, s2.a))
  IN  With(s2, [L |-> MatScale(L2, F(s2.R))])

\* PSCgrid.setup_orientations
setup_orientations(s, alphas, deltas) ==
  LET nn == Len(alphas)
      s1 == With(s, [alphas |-> alphas, deltas |-> deltas,
                     coil_normals |-> [i \in 1..nn |-> AngleNormal(alphas[i], deltas[i])],
                     coil_normals_neg |->
                       [i \in 1..nn |-> FixNegZero(AngleNormal(alphas[i], deltas[i]),
                                                   NormalSign(alphas[i], deltas[i]))],
                     coil_normals_res |->
                       [i \in 1..nn |-> NormalResidue(alphas[i], deltas[i])]])
      s2 == update_alphas_deltas(s1)
      L0 == LKernel(s2.grid_xyz_all_normalized, s2.alphas_total, s2.deltas_total)
      L1 == MatAdd(L0, Transpose(L0))
      L2 == FillDiagonal(L1, SelfInductance(s2.R, s2.a))
  IN  With(s2, [L |-> MatScale(L2, F(s2.R))])

\* B_TF.set_points(points); B_TF.B() evaluates at the points set last
SetPoints(s, pts) == With(s, [B_TF |-> [kind |-> s.B_TF.kind, points |-> pts]])
FieldB(s) == [k \in 1..Len(s.B_TF.points) |-> BAt(s.B_TF.kind, s.B_TF.points[k])]

\* a faulty update_psi: the flux is integrated at the quadrature points of the
\* previous call, the new ones are only stored
update_psi_lagging(s) ==
  LET fg == FluxXYZ(s.grid_xyz_all, s.alphas_total, s.deltas_total, s.quad_points_rho)
      s1 == SetPoints(With(s, [flux_grid |-> fg]),
                      IF "flux_grid" \in s.attrs THEN s.flux_grid ELSE fg)
      pt == FluxIntegration(FieldB(s1), s1.quad_points_rho, s1.coil_normals_all)
  IN  With(s1, [psi_total |-> pt, psi |-> Slice(pt, 0, s1.num_psc)])

\* PSCgrid.update_psi
update_psi(s) ==
  LET fg == FluxXYZ(s.grid_xyz_all, s.alphas_total, s.deltas_total, s.quad_points_rho)
      s1 == SetPoints(With(s, [flux_grid |-> fg]), fg)
      pt == FluxIntegration(FieldB(s1), s1.quad_points_rho, s1.coil_normals_all)
  IN  With(s1, [psi_total |-> pt, psi |-> Slice(pt, 0, s1.num_psc)])

\* the loop of setup_A_matrix from iteration q on
RECURSIVE AMatrixLoop(_, _, _)
AMatrixLoop(s, q, acc) ==
  IF q >= NumReplicas(s) THEN acc
  ELSE AMatrixLoop(s, q + 1,
         MatAdd(acc, AKernel(BlockOf(s.grid_xyz_all, q, s.num_psc),
                             s.plasma_points,
                             BlockOf(s.alphas_total, q, s.num_psc),
                             BlockOf(s.deltas_total, q, s.num_psc),
                             s.plasma_unitnormals, s.R)))

\* PSCgrid.setup_A_matrix
setup_A_matrix(s) ==
  With(s, [A_matrix |->
             MatScale(AMatrixLoop(s, 0, ZeroMat(s.nphi * s.ntheta, s.num_psc)), 2)])

\* a faulty setup_currents_and_fields: an inverse computed earlier is kept
setup_currents_and_fields_cached(s) ==
  LET Li == IF "L_inv" \in s.attrs THEN s.L_inv ELSE Inv(s.L)
  IN  IF Li = Singular THEN Raise(s, "LinAlgError")
      ELSE LET Iall == VecScale(MatVec(Li, s.psi_total), FNeg(FInv(s.fac)))
               s1   == With(s, [L_inv |-> Li, I_all |-> Iall,
                                I |-> Slice(Iall, 0, s.num_psc)])
               s2   == setup_A_matrix(s1)
           IN  With(s2, [Bn_PSC |-> MatVec(s2.A_matrix, s2.I)])

\* a faulty setup_currents_and_fields: the coil field is folded into b_opt
setup_currents_and_fields_folding(s) ==
  LET Li == Inv(s.L)
  IN  IF Li = Singular THEN Raise(s, "LinAlgError")
      ELSE LET Iall == VecScale(MatVec(Li, s.psi_total), FNeg(FInv(s.fac)))
               s1   == With(s, [L_inv |-> Li, I_all |-> Iall,
                                I |-> Slice(Iall, 0, s.num_psc)])
               s2   == setup_A_matrix(s1)
               Bn   == MatVec(s2.A_matrix, s2.I)
           IN  IF "b_opt" \in s2.attrs
               THEN With(s2, [Bn_PSC |-> Bn, b_opt |-> VecAdd(s2.b_opt, Bn)])
               ELSE With(s2, [Bn_PSC |-> Bn])

\* PSCgrid.setup_currents_and_fields
setup_currents_and_fields(s) ==
  LET Li == Inv(s.L)
  IN  IF Li = Singular THEN Raise(s, "LinAlgError")
      ELSE LET Iall == VecScale(MatVec(Li, s.psi_total), FNeg(FInv(s.fac)))
               s1   == With(s, [L_inv |-> Li, I_all |-> Iall,
                                I |-> Slice(Iall, 0, s.num_psc)])
               s2   == setup_A_matrix(s1)
           IN  With(s2, [Bn_PSC |-> MatVec(s2.A_matrix, s2.I)])

\* PSCgrid.b_vector; the sum of Bn_TF and a flattened Bn_plasma of another
\* length cannot be broadcast
b_vector(s) ==
  LET flat == s.Bn_plasma.flat
      s1   == SetPoints(s, s.plasma_points)
      B    == FieldB(s1)
      BnTF == [k \in 1..Len(B) |-> Dot(B[k], s1.plasma_unitnormals[k])]
  IN  IF Len(flat) = Len(BnTF)
      THEN With(s1, [b_opt |-> VecScale(VecAdd(BnTF, flat), FInv(s1.fac))])
      ELSE IF Len(flat) = 1
      THEN With(s1, [b_opt |-> VecScale([k \in 1..Len(BnTF) |-> FAdd(BnTF[k], flat[1])],
                                        FInv(s1.fac))])
      ELSE Raise(s1, "ValueError: broadcast")

\* the loop of A_deriv from iteration q on
RECURSIVE ADerivLoop(_, _, _)
ADerivLoop(s, q, acc) ==
  IF q >= NumReplicas(s) THEN acc
  ELSE LET nn == s.num_psc
           dA == Array(DAKernel(BlockOf(s.grid_xyz_all, q, nn), s.plasma_points,
                          BlockOf(s.alphas_total, q, nn), BlockOf(s.deltas_total, q, nn),
                          s.plasma_unitnormals, s.R))
           da == [p \in 1..Len(dA) |-> Slice(dA[p], 0, nn)]
           dd == [p \in 1..Len(dA) |-> Slice(dA[p], nn, 2 * nn)]
           ua == MatAdd(MulCols(da, BlockOf(s.aaprime_aa, q, nn)),
                        MulCols(dd, BlockOf(s.ddprime_aa, q, nn)))
           ud == MatAdd(MulCols(dd, BlockOf(s.ddprime_dd, q, nn)),
                        MulCols(da, BlockOf(s.aaprime_dd, q, nn)))
       IN  ADerivLoop(s, q + 1, Array(MatAdd(acc, HStack(ua, ud))))

\* PSCgrid.A_deriv
A_deriv(s) ==
  MatScale(ADerivLoop(s, 0, ZeroMat(Len(s.plasma_points), 2 * s.num_psc)), Pi)

\* the loop of psi_deriv from iteration q on
RECURSIVE PsiDerivLoop(_, _, _)
PsiDerivLoop(s, q, acc) ==
  IF q >= NumReplicas(s) THEN acc
  ELSE LET nn   == s.num_psc
           dpsi == Array(DPsiKernel(BlockOf(s.grid_xyz_all, q, nn),
                              BlockOf(s.alphas_total, q, nn), BlockOf(s.deltas_total, q, nn),
                              BlockOf(s.coil_normals_all, q, nn), s.quad_points_rho, s.R))
           ua   == VecAdd(VecMul(Slice(dpsi, 0, nn), BlockOf(s.aaprime_aa, q, nn)),
                          VecMul(Slice(dpsi, nn, 2 * nn), BlockOf(s.ddprime_aa, q, nn)))
           ud   == VecAdd(VecMul(Slice(dpsi, 0, nn), BlockOf(s.aaprime_dd, q, nn)),
                          VecMul(Slice(dpsi, nn, 2 * nn), BlockOf(s.ddprime_dd, q, nn)))
       IN  PsiDerivLoop(s, q + 1, Array(VecAdd(acc, ua \o ud)))

\* PSCgrid.psi_deriv
psi_deriv(s) ==
  VecScale(PsiDerivLoop(s, 0, Zeros(2 * s.num_psc)),
           FDiv(FDiv(FDiv(1, NumTFQuad), F(s.nfp)), F(s.stellsym + 1)))

\* the loop of L_deriv from iteration q on; Ld is the kernel's tensor and acc
\* the copy, whose matrices 1..nn and ncoils_sym+1..ncoils_sym+nn are added to
RECURSIVE LDerivLoop(_, _, _, _)
LDerivLoop(s, Ld, q, acc) ==
  IF q >= NumReplicas(s) THEN acc
  ELSE LET nn  == s.num_psc
           ncs == nn * s.symmetry
           add(k) ==
             IF k <= nn
             THEN MatAdd(MatScale(Ld[q * nn + k], s.aaprime_aa[q * nn + k]),
                         MatScale(Ld[ncs + q * nn + k], s.ddprime_aa[q * nn + k]))
             ELSE MatAdd(MatScale(Ld[q * nn + k - ncs], s.aaprime_dd[q * nn + k - ncs]),
                         MatScale(Ld[ncs + q * nn + k - ncs], s.ddprime_dd[q * nn + k - ncs]))
       IN  LDerivLoop(s, Ld, q + 1,
             Array([k \in 1..Len(acc) |->
                      IF k <= nn \/ (k > ncs /\ k <= ncs + nn)
                      THEN Array(MatAdd(acc[k], add(k))) ELSE acc[k]]))

\* PSCgrid.L_deriv
L_deriv(s) ==
  LET ncs == s.num_psc * s.symmetry
      sym(copy) == [k \in 1..Len(copy) |->
                      MatScale(MatAdd(copy[k], Transpose(copy[k])), F(s.R))]
      body(Ld) == IF s.symmetry > 1
                  THEN sym(LDerivLoop(s, Ld, 0, [k \in 1..Len(Ld) |-> ZeroMat(ncs, ncs)]))
                  ELSE sym(Ld)
  IN  Let(Array(LDerivKernel(s.grid_xyz_all_normalized, s.alphas_total, s.deltas_total)),
          body)

\* a faulty least_squares: the two halves of kappas are taken in the other order
least_squares_swapped(s, kappas) ==
  LET value(s3) ==
        LET Ax_b   == VecMul(VecAdd(s3.Bn_PSC, s3.b_opt), s3.grid_normalization)
            BdotN2 == FMul(FMul(Half, Dot(Ax_b, Ax_b)), s3.fac2_norm)
        IN  IF s3.exc # "none" THEN [obj |-> s3, ret |-> <<>>]
            ELSE [obj |-> With(s3, [BdotN2_list |-> Append(s3.BdotN2_list, BdotN2)]),
                  ret |-> <<BdotN2>>]
  IN  Let(setup_currents_and_fields(update_psi(
            setup_orientations(s, Slice(kappas, s.num_psc, Len(kappas)),
                               Slice(kappas, 0, s.num_psc)))), value)

\* a faulty least_squares: the loss is put at the head of the list
least_squares_prepending(s, kappas) ==
  LET value(s3) ==
        LET Ax_b   == VecMul(VecAdd(s3.Bn_PSC, s3.b_opt), s3.grid_normalization)
            BdotN2 == FMul(FMul(Half, Dot(Ax_b, Ax_b)), s3.fac2_norm)
        IN  IF s3.exc # "none" THEN [obj |-> s3, ret |-> <<>>]
            ELSE [obj |-> With(s3, [BdotN2_list |-> <<BdotN2>> \o s3.BdotN2_list]),
                  ret |-> <<BdotN2>>]
  IN  Let(setup_currents_and_fields(update_psi(
            setup_orientations(s, Slice(kappas, 0, s.num_psc),
                               Slice(kappas, s.num_psc, Len(kappas))))), value)

\* PSCgrid.least_squares: the object after the call and the value returned
least_squares(s, kappas) ==
  LET value(s3) ==
        LET Ax_b   == VecMul(VecAdd(s3.Bn_PSC, s3.b_opt), s3.grid_normalization)
            BdotN2 == FMul(FMul(Half, Dot(Ax_b, Ax_b)), s3.fac2_norm)
        IN  IF s3.exc # "none" THEN [obj |-> s3, ret |-> <<>>]
            ELSE [obj |-> With(s3, [BdotN2_list |-> Append(s3.BdotN2_list, BdotN2)]),
                  ret |-> <<BdotN2>>]
  IN  Let(setup_currents_and_fields(update_psi(
            setup_orientations(s, Slice(kappas, 0, s.num_psc),
                               Slice(kappas, s.num_psc, Len(kappas))))), value)

\* a faulty least_squares_jacobian: -Linv is scaled row-wise by psi_deriv
least_squares_jacobian_row_scaled(s, kappas) ==
  LET nn == s.num_psc
      grad(s3, Ad, pd, Linv) ==
        LET Ax_b == VecMul(VecAdd(s3.Bn_PSC, s3.b_opt), s3.grid_normalization)
            grad_alpha1 == MulCols([p \in 1..Len(Ad) |-> Slice(Ad[p], 0, nn)], s3.I)
            grad_delta1 == MulCols([p \in 1..Len(Ad) |-> Slice(Ad[p], nn, 2 * nn)], s3.I)
            grad_kappa1 == MulRows(s3.grid_normalization, HStack(grad_alpha1, grad_delta1))
            I_deriv2 == MulRows(Slice(pd, 0, nn), MatScale(Linv, FNeg(1)))
            I_deriv3 == MulRows(Slice(pd, nn, 2 * nn), MatScale(Linv, FNeg(1)))
            grad_alpha3 == MatMul(s3.A_matrix, I_deriv2)
            grad_delta3 == MatMul(s3.A_matrix, I_deriv3)
            grad_kappa3 == MulRows(s3.grid_normalization, HStack(grad_alpha3, grad_delta3))
        IN  VecScale(MatVec(Transpose(MatAdd(grad_kappa1, grad_kappa3)), Ax_b),
                     s3.fac2_norm)
      value(s3) ==
        IF s3.exc # "none" THEN [obj |-> s3, ret |-> <<>>]
        ELSE [obj |-> s3,
              ret |-> CHOOSE g \in {grad(s3, Ad, pd, Linv) :
                                      Ad \in {A_deriv(s3)}, pd \in {psi_deriv(s3)},
                                      Linv \in {Block(s3.L_inv, nn)}} : TRUE]
  IN  Let(setup_currents_and_fields(update_psi(
            setup_orientations(s, Slice(kappas, 0, nn), Slice(kappas, nn, Len(kappas))))),
          value)

\* PSCgrid.least_squares_jacobian
least_squares_jacobian(s, kappas) ==
  LET nn == s.num_psc
      grad(s3, Ad, pd, Linv) ==
        LET Ax_b == VecMul(VecAdd(s3.Bn_PSC, s3.b_opt), s3.grid_normalization)
            grad_alpha1 == MulCols([p \in 1..Len(Ad) |-> Slice(Ad[p], 0, nn)], s3.I)
            grad_delta1 == MulCols([p \in 1..Len(Ad) |-> Slice(Ad[p], nn, 2 * nn)], s3.I)
            grad_kappa1 == MulRows(s3.grid_normalization, HStack(grad_alpha1, grad_delta1))
            I_deriv2 == MulCols(MatScale(Linv, FNeg(1)), Slice(pd, 0, nn))
            I_deriv3 == MulCols(MatScale(Linv, FNeg(1)), Slice(pd, nn, 2 * nn))
            grad_alpha3 == MatMul(s3.A_matrix, I_deriv2)
            grad_delta3 == MatMul(s3.A_matrix, I_deriv3)
            grad_kappa3 == MulRows(s3.grid_normalization, HStack(grad_alpha3, grad_delta3))
        IN  VecScale(MatVec(Transpose(MatAdd(grad_kappa1, grad_kappa3)), Ax_b),
                     s3.fac2_norm)
      value(s3) ==
        IF s3.exc # "none" THEN [obj |-> s3, ret |-> <<>>]
        ELSE [obj |-> s3,
              ret |-> CHOOSE g \in {grad(s3, Ad, pd, Linv) :
                                      Ad \in {A_deriv(s3)}, pd \in {psi_deriv(s3)},
                                      Linv \in {Block(s3.L_inv, nn)}} : TRUE]
  IN  Let(setup_currents_and_fields(update_psi(
            setup_orientations(s, Slice(kappas, 0, nn), Slice(kappas, nn, Len(kappas))))),
          value)

(***************************************************************************)
(* Construction                                                            *)
(***************************************************************************)
\* self.fac = 1e-7
Fac == FDiv(1, 10000000)

\* PSCgrid.__init__; the attributes assigned later hold a placeholder until
\* they are in attrs.  The quadrature rule has one node, at rho = 1, here.
NewObject ==
  [exc |-> "none", attrs |-> {"fac", "BdotN2_list", "quad_points_rho"},
   fac |-> Fac, BdotN2_list |-> <<>>, quad_points_rho |-> 1,
   grid_xyz |-> <<>>, R |-> 0, a |-> 0, num_psc |-> 0, alphas |-> <<>>, deltas |-> <<>>,
   nfp |-> 0, stellsym |-> 0, symmetry |-> 0, stell_list |-> <<>>,
   nphi |-> 0, ntheta |-> 0, plasma_unitnormals |-> <<>>, plasma_points |-> <<>>,
   grid_normalization |-> <<>>, Bn_plasma |-> [shape |-> <<>>, flat |-> <<>>],
   Nx |-> 0, Ny |-> 0, Nz |-> 0, poff |-> 0, dx |-> 0, dy |-> 0, dz |-> 0,
   xyz_uniform |-> <<>>,
   normalization |-> 0, fac2_norm |-> 0, B_TF |-> [kind |-> "none", points |-> <<>>],
   coil_normals |-> <<>>, coil_normals_neg |-> <<>>, coil_normals_res |-> <<>>,
   grid_xyz_all |-> <<>>, grid_blocks |-> <<>>, grid_xyz_all_normalized |-> <<>>,
   coil_normals_all |-> <<>>, alphas_total |-> <<>>, deltas_total |-> <<>>,
   aaprime_aa |-> <<>>, aaprime_dd |-> <<>>, ddprime_dd |-> <<>>, ddprime_aa |-> <<>>,
   L |-> <<>>, flux_grid |-> <<>>, psi_total |-> <<>>, psi |-> <<>>,
   L_inv |-> <<>>, I_all |-> <<>>, I |-> <<>>, A_matrix |-> <<>>, Bn_PSC |-> <<>>,
   curves |-> <<>>, I_all_with_sign_flips |-> <<>>, b_opt |-> <<>>, kappas |-> <<>>]

\* a faulty kwargs.pop: the keyword is ignored
PopDefault(kw, name, default) == default

\* kwargs.pop(name, default)
Pop(kw, name, default) == IF name \in DOMAIN kw THEN kw[name] ELSE default

RECURSIVE Prod(_)
Prod(s) == IF s = <<>> THEN 1 ELSE Head(s) * Prod(Tail(s))

\* a Bn_plasma array of the given shape
BnArray(shape) == [shape |-> shape, flat |-> [k \in 1..Prod(shape) |-> F(k)]]

\* np.allclose(Bn_plasma.shape, (nphi, ntheta)): the two tuples are broadcast
\* against each other as arrays, which fails when their lengths are neither
\* equal nor 1
ShapeAllClose(shape, nphi, ntheta) ==
  CASE Len(shape) = 2 -> IF shape[1] = nphi /\ shape[2] = ntheta THEN "True" ELSE "False"
    [] Len(shape) = 1 -> IF shape[1] = nphi /\ shape[1] = ntheta THEN "True" ELSE "False"
    [] OTHER -> "ValueError: broadcast in allclose"

\* the plasma-boundary block shared by the two constructors, up to the shape check
PlasmaSetup(s, pb, kw) ==
  LET Ngrid == pb.nphi * pb.ntheta
      s1 == With(s, [nfp |-> pb.nfp, stellsym |-> pb.stellsym,
                     symmetry |-> pb.nfp * (pb.stellsym + 1),
                     stell_list |-> IF pb.stellsym = 1 THEN <<1, -1>> ELSE <<1>>,
                     nphi |-> pb.nphi, ntheta |-> pb.ntheta,
                     plasma_unitnormals |-> [k \in 1..Ngrid |-> PlasmaNormal(k)],
                     plasma_points |-> [k \in 1..Ngrid |-> PlasmaPoint(k)],
                     grid_normalization |->
                       [k \in 1..Ngrid |-> Sqrt(FDiv(NormNorm(k), F(Ngrid)))]])
      bn == Pop(kw, "Bn_plasma", [shape |-> <<pb.nphi, pb.ntheta>>,
                                  flat |-> Zeros(pb.nphi * pb.ntheta)])
      ok == ShapeAllClose(bn.shape, pb.nphi, pb.ntheta)
  IN  IF ok = "True" THEN With(s1, [Bn_plasma |-> bn])
      ELSE IF ok = "False" THEN Raise(s1, "ValueError: shape")
      ELSE Raise(s1, ok)

\* |phi_grid - phi0| < phi_dev for the plane at rot quarter turns, with
\* phi_grid = arctan2(y, x) in (-pi, pi], phi0 = rot*pi/2 in [0, 2pi) and
\* phi_dev = arctan2(R, r) in (0, pi/2].  The difference is below a right angle
\* only if the center is in the open half plane around the plane's direction
\* and phi_grid, as reported, is within a right angle of phi0; then
\* tan|phi_grid - phi0| = |perp| / par is compared with tan(phi_dev) = R / r.
PlaneConflict(pt, R, rot) ==
  LET x    == pt[1]
      y    == pt[2]
      par  == x * Cos4(rot) + y * Sin4(rot)
      perp == y * Cos4(rot) - x * Sin4(rot)
      r2   == Sq(x) + Sq(y)
      near == CASE rot = 0 -> TRUE
                [] rot = 1 -> TRUE
                [] rot = 2 -> y >= 0
                [] OTHER   -> FALSE
  IN  IF r2 = 0 THEN rot = 0
      ELSE par > 0 /\ near /\ Sq(perp) * r2 < Sq(R) * Sq(par)

\* the symmetry-plane check shared by the two constructors
PlaneCheck(s) ==
  LET inds == {i \in 0..(s.nfp - 1) :
                 \E k \in 1..s.num_psc : PlaneConflict(s.grid_xyz[k], s.R, Phi0(s.nfp, i))}
  IN  IF inds # {} THEN Raise(s, "ValueError: symmetry plane") ELSE s

\* a faulty distance check: centers at exactly 2R are refused too
DistanceCheckInclusive(s) ==
  IF \E i \in 1..s.num_psc : \E j \in (i + 1)..s.num_psc :
        Dist2(s.grid_xyz[i], s.grid_xyz[j]) <= 4 * Sq(s.R)
  THEN Raise(s, "ValueError: coil distance") ELSE s

\* a faulty distance check: only centers closer than R are refused
DistanceCheckRadius(s) ==
  IF \E i \in 1..s.num_psc : \E j \in (i + 1)..s.num_psc :
        Dist2(s.grid_xyz[i], s.grid_xyz[j]) < Sq(s.R)
  THEN Raise(s, "ValueError: coil distance") ELSE s

\* the pairwise distance check of geo_setup_between_toroidal_surfaces
DistanceCheck(s) ==
  IF \E i \in 1..s.num_psc : \E j \in (i + 1)..s.num_psc :
        Dist2(s.grid_xyz[i], s.grid_xyz[j]) < 4 * Sq(s.R)
  THEN Raise(s, "ValueError: coil distance") ELSE s

\* PSCgrid.setup_curves: the curves are built from the angles of the moment
setup_curves(s) ==
  With(s, [curves |-> [R |-> s.R, alphas |-> s.alphas, deltas |-> s.deltas,
                       centers |-> s.grid_xyz]])

\* the loop of plot_curves
RECURSIVE SignFlipLoop(_, _, _)
SignFlipLoop(s, q, acc) ==
  IF q >= NumReplicas(s) THEN acc
  ELSE SignFlipLoop(s, q + 1,
         WriteBlock(acc, q, s.num_psc,
                    VecScale(BlockOf(s.I_all, q, s.num_psc),
                             F(ReplicaList(s.nfp, s.stell_list)[q + 1].stell))))

\* PSCgrid.plot_curves, without the files it writes
plot_curves(s) ==
  LET s1 == SetPoints(s, s.grid_xyz)
      s2 == With(s1, [I_all_with_sign_flips |->
                        SignFlipLoop(s1, 0, Zeros(Len(s1.I_all)))])
  IN  SetPoints(s2, s2.grid_xyz_all)

\* the common tail of the two constructors, from setup_full_grid on
SetupTail(s) ==
  LET t1 == setup_full_grid(s)
      t2 == setup_orientations(t1, t1.alphas, t1.deltas)
      t3 == update_psi(t2)
      t4 == setup_currents_and_fields(t3)
      t5 == Then(t4, setup_curves)
      t6 == Then(t5, plot_curves)
      t7 == Then(t6, b_vector)
      fin(u) == With(u, [kappas |-> u.alphas \o u.deltas])
  IN  Then(t7, fin)

\* coil_normals from the initial angles, with the -0 fix
InitNormals(s) ==
  With(s, [coil_normals |->
             [i \in 1..s.num_psc |-> AngleNormal(s.alphas[i], s.deltas[i])],
           coil_normals_neg |->
             [i \in 1..s.num_psc |->
                FixNegZero(AngleNormal(s.alphas[i], s.deltas[i]),
                           NormalSign(s.alphas[i], s.deltas[i]))],
           coil_normals_res |->
             [i \in 1..s.num_psc |-> NormalResidue(s.alphas[i], s.deltas[i])]])

\* the TF-field block: the evaluator kept on the object, its points, the
\* normalization of the objective
FieldSetup(s, kind) ==
  LET nrm == FMul(FMul(BAxis, BAxis), PlasmaArea)
  IN  With(s, [B_TF |-> [kind |-> kind, points |-> s.grid_xyz],
               normalization |-> nrm,
               fac2_norm |-> FDiv(FMul(s.fac, s.fac), nrm)])

\* PSCgrid.geo_setup_manual(points, R, **kwargs); the angles drawn at random
\* when alphas and deltas are not given are args.random
geo_setup_manual(args) ==
  LET kw == args.kwargs
      nn == Len(args.points)
      s0 == With(NewObject,
              [grid_xyz |-> args.points, R |-> args.R,
               a |-> Pop(kw, "a", FDiv(F(args.R), 100)),
               num_psc |-> nn,
               alphas |-> Pop(kw, "alphas", [i \in 1..nn |-> args.random.alpha]),
               deltas |-> Pop(kw, "deltas", [i \in 1..nn |-> args.random.delta]),
               quad_points_rho |-> NewObject.quad_points_rho * args.R])
      s1 == PlasmaSetup(s0, args.plasma_boundary, kw)
      s2 == Then(s1, PlaneCheck)
      \* "psc_grid.B_TF = InterpolatedField(...)" when interpolated_field is set,
      \* and then "psc_grid.B_TF = B_TF" with B_TF still the BiotSavart object
      fld(u) ==
        LET u1 == IF Pop(kw, "interpolated_field", FALSE)
                  THEN With(u, [B_TF |-> [kind |-> "InterpolatedField", points |-> <<>>]])
                  ELSE u
        IN  FieldSetup(u1, "BiotSavart")
      s3 == Then(s2, fld)
      s4 == Then(s3, InitNormals)
  IN  Then(s4, SetupTail)

\* the extent of the outer toroidal surface (outer_toroidal_surface.gamma())
OuterBox == [x_min |-> -10, x_max |-> 30, y_min |-> -10, y_max |-> 30,
             z_min |-> -10, z_max |-> 10]

\* sopp.define_a_uniform_cartesian_grid_between_two_toroidal_surfaces keeps
\* the points between the two surfaces
InShell(pt) ==
  pt[3] = 10 /\ Sq(pt[1]) + Sq(pt[2]) >= 150 /\ Sq(pt[1]) + Sq(pt[2]) <= 250

Min(x, y) == IF x <= y THEN x ELSE y
Max(x, y) == IF x >= y THEN x ELSE y

\* np.linspace(lo, hi, n, endpoint=True)
Linspace(lo, hi, n) ==
  [i \in 1..n |-> IF n = 1 THEN lo ELSE lo + ((i - 1) * (hi - lo)) \div (n - 1)]

\* the float inf, which the division of a positive numpy float by zero
\* returns (with a RuntimeWarning, not an exception)
Inf == 10000
\* a / n for a numpy float a > 0 and an integer n >= 0
TrueDiv(a, n) == IF n = 0 THEN Inf ELSE a \div n
\* x * num / den for a float x
Scaled(x, num, den) == IF x = Inf THEN Inf ELSE (num * x) \div den

\* the coil radius chosen by _setup_uniform_grid
GridRadius(nfp, Nmin, poff) ==
  IF nfp = 2 THEN Scaled(Nmin, 2, 5)
  ELSE IF nfp = 3 THEN Min(Scaled(Nmin, 1, 2), poff \div 3)
  ELSE (2 * poff) \div 5

\* "phi >= (np.pi / nfp - phi2) or phi < 0.0" for the grid point (X, Y), with
\* phi = arctan2(Y, X); phi2 = arctan2(R, rc00) for nfp = 2 and
\* arctan2(R, X) for nfp = 4.  For Y >= 0 the angles are compared by their
\* tangents: tan(pi/2 - phi2) = rc00 / R, tan(pi/4 - phi2) = (X - R) / (X + R).
OutOfSector(nfp, X, Y, R) ==
  \/ Y < 0
  \/ /\ nfp = 2
     /\ IF X > 0 THEN Y * R >= Rc00 * X ELSE ~(X = 0 /\ Y = 0)
  \/ /\ nfp = 4
     /\ IF X > 0 /\ R < X THEN Y * (X + R) >= X * (X - R) ELSE TRUE

\* PSCgrid._setup_uniform_grid
setup_uniform_grid(s) ==
  LET z_max == Max(OuterBox.z_max, Abs(OuterBox.z_min))
      dx == TrueDiv(OuterBox.x_max - OuterBox.x_min, s.Nx - 1)
      dy == TrueDiv(OuterBox.y_max - OuterBox.y_min, s.Ny - 1)
      dz == TrueDiv(2 * z_max, s.Nz - 1)
      Nmin == Min(dx, Min(dy, dz))
      R == GridRadius(s.nfp, Nmin, s.poff)
      \* lo + d / 2 and hi - d / 2, which are inf and -inf for d = inf
      first(lo, d) == IF d = Inf THEN Inf ELSE d \div 2 + lo
      final(hi, d) == IF d = Inf THEN 0 - Inf ELSE hi - d \div 2
      X == IF s.nfp > 1
           THEN Linspace(first(OuterBox.x_min, dx), final(OuterBox.x_max, dx), s.Nx)
           ELSE Linspace(OuterBox.x_min, OuterBox.x_max, s.Nx)
      Y == IF s.nfp > 1
           THEN Linspace(first(OuterBox.y_min, dy), final(OuterBox.y_max, dy), s.Ny)
           ELSE Linspace(OuterBox.y_min, OuterBox.y_max, s.Ny)
      Z == Linspace(0 - z_max, z_max, s.Nz)
      mesh == [m \in 1..(s.Nx * s.Ny * s.Nz) |->
                 << X[((m - 1) \div (s.Ny * s.Nz)) + 1],
                    Y[(((m - 1) \div s.Nz) % s.Ny) + 1],
                    Z[((m - 1) % s.Nz) + 1] >>]
      InSector(pt) == ~OutOfSector(s.nfp, pt[1], pt[2], R)
      s1 == With(s, [dx |-> dx, dy |-> dy, dz |-> dz, R |-> R, a |-> FDiv(F(R), 100),
                     xyz_uniform |-> mesh])
  IN  IF s.nfp <= 1 THEN s1
      \* phi2 is assigned for nfp = 2, 3 and 4 only and is read for the first
      \* grid point
      ELSE IF s.nfp \notin {2, 3, 4} /\ Len(mesh) > 0
           THEN Raise(s1, "UnboundLocalError: phi2")
      ELSE With(s1, [xyz_uniform |-> SelectSeq(mesh, InSector)])

\* a faulty GridDims: only Nx is checked
GridDimsNxOnly(u, kw) ==
  LET Nx == Pop(kw, "Nx", 10)
      Ny == Pop(kw, "Ny", Nx)
      Nz == Pop(kw, "Nz", Nx)
      u1 == With(u, [poff |-> Pop(kw, "poff", 100)])
  IN  IF Nx <= 0 THEN Raise(u1, "ValueError: grid dimensions")
      ELSE With(u1, [Nx |-> Nx, Ny |-> Ny, Nz |-> Nz])

\* the grid dimensions and poff of geo_setup_between_toroidal_surfaces
GridDims(u, kw) ==
  LET Nx == Pop(kw, "Nx", 10)
      Ny == Pop(kw, "Ny", Nx)
      Nz == Pop(kw, "Nz", Nx)
      u1 == With(u, [poff |-> Pop(kw, "poff", 100)])
  IN  IF Nx <= 0 \/ Ny <= 0 \/ Nz <= 0 THEN Raise(u1, "ValueError: grid dimensions")
      ELSE With(u1, [Nx |-> Nx, Ny |-> Ny, Nz |-> Nz])

\* PSCgrid.geo_setup_between_toroidal_surfaces(plasma_boundary, coils_TF,
\* inner_toroidal_surface, outer_toroidal_surface, **kwargs); args.random are
\* the angles of an initialization other than "zeros"
geo_setup_between_toroidal_surfaces(args) ==
  LET kw == args.kwargs
      s1 == PlasmaSetup(NewObject, args.plasma_boundary, kw)
      dims(u) == GridDims(u, kw)
      s2 == Then(s1, dims)
      s3 == Then(s2, setup_uniform_grid)
      shell(u) ==
        LET NotZero(pt) == pt # <<0, 0, 0>>
            g == SelectSeq(SelectSeq(u.xyz_uniform, InShell), NotZero)
        IN  With(u, [grid_xyz |-> g, num_psc |-> Len(g),
                     quad_points_rho |-> u.quad_points_rho * u.R])
      s4 == Then(s3, shell)
      \* here B_TF itself is rebound to the InterpolatedField before it is stored
      fld(u) == FieldSetup(u, IF Pop(kw, "interpolated_field", FALSE)
                              THEN "InterpolatedField" ELSE "BiotSavart")
      s5 == Then(s4, fld)
      ang(u) ==
        IF Pop(kw, "initialization", "zeros") = "zeros"
        THEN With(u, [alphas |-> Zeros(u.num_psc), deltas |-> Zeros(u.num_psc)])
        ELSE With(u, [alphas |-> [i \in 1..u.num_psc |-> args.random.alpha],
                      deltas |-> [i \in 1..u.num_psc |-> args.random.delta]])
      s6 == Then(s5, ang)
      s7 == Then(s6, InitNormals)
      s8 == Then(s7, PlaneCheck)
      s9 == Then(s8, DistanceCheck)
  IN  Then(s9, SetupTail)

(***************************************************************************)
(* The inputs of the model                                                 *)

(***************************************************************************)
(* BoozerAnalytic: a record of its thirteen parameters, the points set     *)
(* last and the cache of the base class, a function from the names of the  *)
(* quantities computed since the last invalidation to their arrays.        *)
(* Points are (s, theta, zeta) with the angles in quarter turns.           *)
(***************************************************************************)
\* |x| of the representative of x nearest to zero
AbsF(x) == IF 2 * x > P THEN P - x ELSE x

EmptyCache == [q \in {} |-> <<>>]

\* BoozerAnalytic.__init__(etabar, B0, N, G0, psi0, iota0) with the defaults
\* Bbar=1., I0=0., G1=0., I1=0., K1=0., iota1=0., B0z=0.
BoozerAnalytic(etabar, B0, N, G0, psi0, iota0) ==
  [etabar |-> etabar, B0 |-> B0, B0z |-> 0, Bbar |-> 1, N |-> N, G0 |-> G0,
   I0 |-> 0, I1 |-> 0, G1 |-> 0, K1 |-> 0, iota0 |-> iota0, psi0 |-> psi0, iota1 |-> 0,
   points |-> <<>>, cache |-> EmptyCache]

NewBoozer == BoozerAnalytic(1, 1, 1, 1, 1, 1)

\* sopp.BoozerMagneticField.invalidate_cache
invalidate_cache(b) == [b EXCEPT !.cache = EmptyCache]

\* sopp.BoozerMagneticField.set_points: "the cache is automatically cleared
\* when set_points is called"
set_points(b, points) == [invalidate_cache(b) EXCEPT !.points = points]

set_etabar(b, etabar) == [invalidate_cache(b) EXCEPT !.etabar = etabar]
set_B0(b, B0) == [invalidate_cache(b) EXCEPT !.B0 = B0]
set_B0z(b, B0z) == [invalidate_cache(b) EXCEPT !.B0z = B0z]
set_Bbar(b, Bbar) == [invalidate_cache(b) EXCEPT !.Bbar = Bbar]
set_N(b, N) == [invalidate_cache(b) EXCEPT !.N = N]
set_G0(b, G0) == [invalidate_cache(b) EXCEPT !.G0 = G0]
set_I0(b, I0) == [invalidate_cache(b) EXCEPT !.I0 = I0]
set_G1(b, G1) == [invalidate_cache(b) EXCEPT !.G1 = G1]
set_I1(b, I1) == [invalidate_cache(b) EXCEPT !.I1 = I1]
\* a faulty set_K1: the cache is kept
set_K1_keeping(b, K1) == [b EXCEPT !.K1 = K1]
set_K1(b, K1) == [invalidate_cache(b) EXCEPT !.K1 = K1]
set_iota0(b, iota0) == [invalidate_cache(b) EXCEPT !.iota0 = iota0]
set_iota1(b, iota1) == [invalidate_cache(b) EXCEPT !.iota1 = iota1]
set_psi0(b, psi0) == [invalidate_cache(b) EXCEPT !.psi0 = psi0]

BoozerSetters ==
  {"set_etabar", "set_B0", "set_B0z", "set_Bbar", "set_N", "set_G0", "set_I0",
   "set_G1", "set_I1", "set_K1", "set_iota0", "set_iota1", "set_psi0"}

\* the call booz.<name>(v)
CallSetter(name, b, v) ==
  CASE name = "set_etabar" -> set_etabar(b, v)
    [] name = "set_B0"     -> set_B0(b, v)
    [] name = "set_B0z"    -> set_B0z(b, v)
    [] name = "set_Bbar"   -> set_Bbar(b, v)
    [] name = "set_N"      -> set_N(b, v)
    [] name = "set_G0"     -> set_G0(b, v)
    [] name = "set_I0"     -> set_I0(b, v)
    [] name = "set_G1"     -> set_G1(b, v)
    [] name = "set_I1"     -> set_I1(b, v)
    [] name = "set_K1"     -> set_K1(b, v)
    [] name = "set_iota0"  -> set_iota0(b, v)
    [] name = "set_iota1"  -> set_iota1(b, v)
    [] name = "set_psi0"   -> set_psi0(b, v)

\* r = np.sqrt(np.abs(2*psi/self.Bbar)) with psi = s*self.psi0
BoozerR(b, pt) == Sqrt(AbsF(FDiv(FMul(2, FMul(pt[1], F(b.psi0))), F(b.Bbar))))

_psip_impl(b) ==
  [k \in 1..Len(b.points) |->
     FMul(F(b.psi0), FAdd(FMul(b.points[k][1], F(b.iota0)),
                          FMul(FMul(b.points[k][1], b.points[k][1]),
                               FMul(F(b.iota1), Half))))]
_iota_impl(b) ==
  [k \in 1..Len(b.points) |-> FAdd(F(b.iota0), FMul(F(b.iota1), b.points[k][1]))]
_G_impl(b) ==
  [k \in 1..Len(b.points) |-> FAdd(F(b.G0), FMul(b.points[k][1], F(b.G1)))]
_I_impl(b) ==
  [k \in 1..Len(b.points) |-> FAdd(F(b.I0), FMul(b.points[k][1], F(b.I1)))]
_modB_impl(b) ==
  [k \in 1..Len(b.points) |->
     FAdd(FMul(F(b.B0),
               FAdd(1, FMul(FMul(F(b.etabar), BoozerR(b, b.points[k])),
                            F(Cos4(b.points[k][2] - b.N * b.points[k][3]))))),
          FMul(F(b.B0z), F(Cos4(b.points[k][3]))))]
_K_impl(b) ==
  [k \in 1..Len(b.points) |->
     FMul(FMul(F(b.K1), BoozerR(b, b.points[k])),
          F(Sin4(b.points[k][2] - b.N * b.points[k][3])))]

BoozerQuantities == {"psip", "iota", "G", "I", "modB", "K"}

\* the array the implementation of quantity q fills
BoozerImpl(b, q) ==
  CASE q = "psip" -> _psip_impl(b)
    [] q = "iota" -> _iota_impl(b)
    [] q = "G"    -> _G_impl(b)
    [] q = "I"    -> _I_impl(b)
    [] q = "modB" -> _modB_impl(b)
    [] q = "K"    -> _K_impl(b)

\* booz.<q>(): the cached array if there is one, else the implementation is
\* called and its array cached
BoozerRead(b, q) ==
  IF q \in DOMAIN b.cache THEN [obj |-> b, ret |-> b.cache[q]]
  ELSE LET v == BoozerImpl(b, q)
       IN  [obj |-> [b EXCEPT !.cache = [x \in DOMAIN b.cache \cup {q} |->
                                           IF x = q THEN v ELSE b.cache[x]]],
            ret |-> v]

(***************************************************************************)
\* the number of evaluate / gradient calls made on one grid
MaxCalls == 2

\* the explicit center lists: the pair of the worked example, (+-1, 0, 0)
\* in units of 0.1; a pair with one center at azimuth pi; a pair of generic
\* centers at distance 2; one center at azimuth pi/2; one center just below
\* the negative x axis, whose azimuth arctan2 reports as a little more than -pi
PointLists ==
  { << <<10, 0, 0>>, <<-10, 0, 0>> >>,
    << <<-10, 0, 0>>, <<8, 5, 0>> >>,
    << <<8, 5, 0>>, <<8, 7, 0>> >>,
    << <<0, 10, 0>> >>,
    << <<-10, -1, 0>> >> }

Radii == {1, 2}
PlasmaBoundaries == [nfp : {1, 2}, stellsym : {0, 1}, nphi : {2}, ntheta : {2}]
\* the plasma boundaries a grid between two surfaces is built for: those
\* above and one of five field periods
GridBoundaries ==
  PlasmaBoundaries \cup [nfp : {5}, stellsym : {0}, nphi : {2}, ntheta : {2}]

\* optional keyword arguments, at most one of them in a call beside the grid
\* dimensions: <<>> is "none given"
NoKw == <<>>
KwBnPlasma ==
  {[Bn_plasma |-> BnArray(sh)] : sh \in {<<2, 2>>, <<2>>, <<2, 1>>, <<2, 2, 2>>}}
KwInterp == {[interpolated_field |-> TRUE]}
KwAngles(n) ==
  {[alphas |-> [i \in 1..n |-> a], deltas |-> Zeros(n)] : a \in {1, 2}}
KwManual(n) ==
  {NoKw, [a |-> FDiv(1, 25)]} \cup KwAngles(n) \cup KwBnPlasma \cup KwInterp
KwDims ==
  {x @@ y @@ z : x \in {[Nx |-> 0], [Nx |-> 1], [Nx |-> 2], [Nx |-> 3]},
                 y \in {NoKw, [Ny |-> -1]},
                 z \in {NoKw, [Nz |-> 0], [Nz |-> 2]}}
KwGrid ==
  {NoKw, [poff |-> 25], [poff |-> 30], [initialization |-> "random"]}
    \cup KwBnPlasma \cup KwInterp

\* the angle a random initialization draws for the coils: alpha in
\* [-pi/2, pi/2), delta in [-pi, pi)
RandomDraws == {[alpha |-> 0, delta |-> 1]}

\* the orientation vectors the optimizer passes: the zero vector, a turn of
\* the first alpha and a turn of the last delta
KappaSet(n) ==
  {Zeros(2 * n)} \cup {[i \in 1..(2 * n) |-> IF i = j THEN 1 ELSE 0] : j \in {1, 2 * n}}

(***************************************************************************)
(* The state machine                                                       *)
(***************************************************************************)
VARIABLES
  phase,   \* "new", then "ready" (a grid was returned) or "failed" (it raised)
  self,    \* the PSCgrid object
  grid0,   \* the PSCgrid object as the constructor returned it
  last,    \* the last call: its name, arguments, result and exception
  calls,   \* the number of evaluate / gradient calls made
  kappas_array,  \* the caller's array passed to the last call, as it is now
  returned, \* the values the completed evaluate calls returned, in call order
  booz,    \* a BoozerAnalytic object: parameters, points and cache
  blast,   \* the last operation on booz: its name, argument and result
  bops,    \* the number of operations made on booz
  bstale   \* the quantities that were in the cache when a setter was called

bvars == <<booz, blast, bops, bstale>>
vars == <<phase, self, grid0, last, calls, kappas_array, returned, booz, blast, bops, bstale>>

NoCall == [op |-> "none", args |-> <<>>, ret |-> <<>>, exc |-> "none"]

Init ==
  /\ phase = "new"
  /\ self = NewObject
  /\ grid0 = NewObject
  /\ last = NoCall
  /\ calls = 0
  /\ kappas_array = <<>>
  /\ returned = <<>>
  /\ booz = NewBoozer
  /\ blast = [op |-> "none", arg |-> <<>>, ret |-> <<>>]
  /\ bops = 0
  /\ bstale = {}

Constructed(name, args, s) ==
  /\ phase' = IF s.exc = "none" THEN "ready" ELSE "failed"
  /\ self' = [s EXCEPT !.exc = "none"]
  /\ grid0' = self'
  /\ last' = [op |-> name, args |-> args, ret |-> <<>>, exc |-> s.exc]
  /\ calls' = 0
  /\ kappas_array' = <<>>
  /\ returned' = <<>>
  /\ UNCHANGED bvars

ConstructManual ==
  /\ phase = "new"
  /\ \E pts \in PointLists, R \in Radii, pb \in PlasmaBoundaries, rnd \in RandomDraws :
       \E kw \in KwManual(Len(pts)) :
         LET args == [points |-> pts, R |-> R, plasma_boundary |-> pb,
                      random |-> rnd, kwargs |-> kw]
         IN  Constructed("geo_setup_manual", args, geo_setup_manual(args))

ConstructGrid ==
  /\ phase = "new"
  /\ \E pb \in GridBoundaries, rnd \in RandomDraws, k1 \in KwDims, k2 \in KwGrid :
       LET args == [plasma_boundary |-> pb, random |-> rnd, kwargs |-> k1 @@ k2]
       IN  Constructed("geo_setup_between_toroidal_surfaces", args,
                       geo_setup_between_toroidal_surfaces(args))

Called(name, kappas, r) ==
  /\ self' = [r.obj EXCEPT !.exc = "none"]
  /\ last' = [op |-> name, args |-> kappas, ret |-> r.ret, exc |-> r.obj.exc]
  /\ calls' = calls + 1
  /\ kappas_array' = kappas
  /\ returned' = IF name = "least_squares" /\ r.obj.exc = "none"
                 THEN returned \o r.ret ELSE returned
  /\ UNCHANGED <<phase, grid0>>
  /\ UNCHANGED bvars

\* the last call was name and it returned
Returned(name) == last.op = name /\ last.exc = "none"

\* evaluate(kappas)
Evaluate ==
  /\ phase = "ready"
  /\ calls < MaxCalls
  /\ \E kappas \in KappaSet(self.num_psc) :
       Called("least_squares", kappas, least_squares(self, kappas))

\* gradient(kappas)
Gradient ==
  /\ phase = "ready"
  /\ calls < MaxCalls
  /\ \E kappas \in KappaSet(self.num_psc) :
       Called("least_squares_jacobian", kappas, least_squares_jacobian(self, kappas))

\* self.alphas and self.deltas are the slices kappas[:num_psc] and
\* kappas[num_psc:] that the last call passed to setup_orientations: views of
\* the caller's array, which read what the array holds now
ReadThroughViews(s, base) ==
  With(s, [alphas |-> Slice(base, 0, s.num_psc),
           deltas |-> Slice(base, s.num_psc, Len(base))])

\* the caller assigns kappas[i] = kappas[i] + pi/2 in place, on the array
\* passed to the call that returned last; one alpha or one delta entry
CallerWrites ==
  /\ phase = "ready"
  /\ Returned("least_squares") \/ Returned("least_squares_jacobian")
  /\ \E i \in {1, Len(kappas_array)} \cap DOMAIN kappas_array :
       /\ kappas_array' = [kappas_array EXCEPT ![i] = @ + 1]
       /\ self' = ReadThroughViews(self, kappas_array')
       /\ last' = [op |-> "kappas[i] = v", args |-> <<i, kappas_array'[i]>>,
                   ret |-> <<>>, exc |-> "none"]
  /\ UNCHANGED <<phase, grid0, calls, returned>>
  /\ UNCHANGED bvars

Next == ConstructManual \/ ConstructGrid \/ Evaluate \/ Gradient \/ CallerWrites

Spec == Init /\ [][Next]_vars

(***************************************************************************)
(* The operations on a BoozerAnalytic object                               *)
(***************************************************************************)
MaxOps == 4
\* the values passed to the setters
ParamValues == {2, 3}
\* the point arrays passed to set_points
BoozerPoints == {<<<<1, 0, 0>>, <<Half, 1, 1>>>>, <<<<Half, 2, 1>>>>}

psc_vars == <<phase, self, grid0, last, calls, kappas_array, returned>>

BoozerOp(name, arg, b, ret) ==
  /\ booz' = b
  /\ blast' = [op |-> name, arg |-> arg, ret |-> ret]
  /\ bops' = bops + 1
  /\ UNCHANGED psc_vars

\* booz.set_points(points)
BSetPoints ==
  /\ bops < MaxOps
  /\ \E points \in BoozerPoints :
       /\ BoozerOp("set_points", points, set_points(booz, points), <<>>)
       /\ bstale' = bstale

\* booz.set_etabar(v), ..., booz.set_psi0(v)
BSetParameter ==
  /\ bops < MaxOps
  /\ \E name \in BoozerSetters, v \in ParamValues :
       /\ BoozerOp(name, v, CallSetter(name, booz, v), <<>>)
       /\ bstale' = bstale \cup DOMAIN booz.cache

\* booz.modB(), booz.G(), ...
BRead ==
  /\ bops < MaxOps
  /\ \E q \in BoozerQuantities :
       /\ BoozerOp(q, <<>>, BoozerRead(booz, q).obj, BoozerRead(booz, q).ret)
       /\ bstale' = bstale

NextBoozer == BSetPoints \/ BSetParameter \/ BRead

SpecBoozer == Init /\ [][NextBoozer]_vars
(***************************************************************************)
(* Properties                                                              *)
(***************************************************************************)
Evaluated == Returned("least_squares")
Differentiated == Returned("least_squares_jacobian")

\* the state an orientation kappas determines on the grid s, from the kernels
\* in the order of the dataflow: angles, normals, expanded set, L, flux, A
Determined(s, kappas) ==
  LET nn   == s.num_psc
      al   == Slice(kappas, 0, nn)
      de   == Slice(kappas, nn, 2 * nn)
      tot  == UpdateKernel([i \in 1..nn |-> AngleNormal(al[i], de[i])], s.nfp, s.stellsym)
      L0   == LKernel(s.grid_xyz_all_normalized, tot.alphas_total, tot.deltas_total)
      diag == FMul(FMul(FSub(Ln(FDiv(FMul(8, F(s.R)), s.a)), 2), 4), Pi)
      fg   == Array(FluxXYZ(s.grid_xyz_all, tot.alphas_total, tot.deltas_total,
                            s.quad_points_rho))
      Bfg  == Array([k \in 1..Len(fg) |-> BAt(s.B_TF.kind, fg[k])])
      psit == FluxIntegration(Bfg, s.quad_points_rho, tot.coil_normals_all)
      Aq(q) == AKernel(BlockOf(s.grid_xyz_all, q, nn), s.plasma_points,
                       BlockOf(tot.alphas_total, q, nn), BlockOf(tot.deltas_total, q, nn),
                       s.plasma_unitnormals, s.R)
  IN  [alphas |-> al, deltas |-> de, tot |-> tot,
       L |-> Array([i \in 1..Len(L0) |-> [j \in 1..Len(L0) |->
               FMul(IF i = j THEN diag ELSE FAdd(L0[i][j], L0[j][i]), F(s.R))]]),
       psi_total |-> Array(psit),
       A_matrix |-> Array([p \in 1..Len(s.plasma_points) |-> [j \in 1..nn |->
               FMul(2, SeqSum([q \in 1..NumReplicas(s) |-> Aq(q - 1)[p][j]]))]])]

\* 0.5 * fac2_norm * sum over the plasma points of ((A I + b_opt) * grid_normalization)^2
Loss(A, I, b_opt, grid_normalization, fac2_norm) ==
  LET r == Array([p \in 1..Len(b_opt) |->
                    FMul(FAdd(Dot(A[p], I), b_opt[p]), grid_normalization[p])])
  IN  FMul(FMul(Half, fac2_norm), SeqSum([p \in 1..Len(b_opt) |-> FMul(r[p], r[p])]))

\* the loss of the orientation kappas on the grid s, computed afresh
LossAt(s, kappas) ==
  LET I(d) == Slice(VecScale(MatVec(Inv(d.L), d.psi_total), FNeg(FInv(s.fac))),
                    0, s.num_psc)
  IN  CHOOSE loss \in
        { Loss(d.A_matrix, I(d), s.b_opt, s.grid_normalization, s.fac2_norm) :
            d \in {Determined(s, kappas)} } : TRUE

Identity(n) == [i \in 1..n |-> [j \in 1..n |-> IF i = j THEN 1 ELSE 0]]

\* C1: a completed evaluate(kappas) has taken alphas = kappas[0..num_psc-1] and
\* deltas = kappas[num_psc..2*num_psc-1] and has returned
\* 0.5 * fac2_norm * sum_p ((A I + b_opt)_p * grid_normalization_p)^2, with A
\* and I the coupling matrix and the currents of those angles.
C1_EvaluateReturnsLoss ==
  Evaluated =>
    /\ self.alphas = Slice(last.args, 0, self.num_psc)
    /\ self.deltas = Slice(last.args, self.num_psc, 2 * self.num_psc)
    /\ last.ret = <<LossAt(grid0, last.args)>>
    /\ last.ret = <<Loss(self.A_matrix, self.I, self.b_opt,
                         self.grid_normalization, self.fac2_norm)>>

\* an evaluate with different alphas and deltas has returned
C1_Witness ==
  /\ Evaluated
  /\ self.num_psc = 2
  /\ self.symmetry = 4
  /\ last.args = <<1, 0, 0, 0>>
  /\ calls = 2

\* C2: after every completed evaluate or gradient call the expanded normals
\* and derivative factors, L, the inverse of L, psi, the currents, A and Bn_PSC
\* are the values determined by the kappas of that call.
C2_NoStaleDerivedState ==
  (Evaluated \/ Differentiated) =>
    LET d == Determined(grid0, last.args)
    IN  /\ self.coil_normals_all = d.tot.coil_normals_all
        /\ self.alphas_total = d.tot.alphas_total
        /\ self.deltas_total = d.tot.deltas_total
        /\ self.aaprime_aa = d.tot.aaprime_aa
        /\ self.aaprime_dd = d.tot.aaprime_dd
        /\ self.ddprime_dd = d.tot.ddprime_dd
        /\ self.ddprime_aa = d.tot.ddprime_aa
        /\ self.L = d.L
        /\ MatMul(self.L_inv, d.L) = Identity(Len(d.L))
        /\ self.psi_total = d.psi_total
        /\ self.psi = Slice(d.psi_total, 0, self.num_psc)
        /\ MatVec(d.L, self.I_all) = VecScale(d.psi_total, FNeg(FInv(self.fac)))
        /\ self.I = Slice(self.I_all, 0, self.num_psc)
        /\ self.A_matrix = d.A_matrix
        /\ self.Bn_PSC = MatVec(d.A_matrix, self.I)

\* a second call has returned, with other kappas than the first
C2_Witness ==
  /\ Differentiated
  /\ calls = 2
  /\ self.BdotN2_list # <<>>
  /\ last.args # Zeros(Len(last.args))
  /\ self.L # grid0.L

\* the state of a grid without the diagnostic list of loss values
Functional(s) == [s EXCEPT !.BdotN2_list = <<>>]

\* C3: evaluate(k) returns the same loss and gradient(k) the same vector
\* whatever calls were made before on the grid, and the state the call leaves
\* is that of the same call on the grid as constructed, but for the list of
\* loss values.
C3_HistoryIndependence ==
  /\ Evaluated =>
       LET r == least_squares(grid0, last.args)
       IN  last.ret = r.ret /\ Functional(self) = Functional(r.obj)
  /\ Differentiated =>
       LET r == least_squares_jacobian(grid0, last.args)
       IN  last.ret = r.ret /\ Functional(self) = Functional(r.obj)

\* a call has returned after an earlier evaluate left a loss value
C3_Witness ==
  /\ Differentiated
  /\ Len(self.BdotN2_list) = 1
  /\ calls = 2
  /\ self.num_psc = 2

(***************************************************************************)
(* Properties of construction                                              *)
(***************************************************************************)
BuiltManual == last.op = "geo_setup_manual"
BuiltGrid == last.op = "geo_setup_between_toroidal_surfaces"
\* the grid constructor got as far as retaining its centers
GridRetained == BuiltGrid /\ "grid_xyz" \in self.attrs

\* the exceptions of type ValueError
ValueErrors ==
  {"ValueError: shape", "ValueError: broadcast in allclose", "ValueError: broadcast",
   "ValueError: symmetry plane", "ValueError: coil distance",
   "ValueError: grid dimensions"}

\* two of the centers are closer than 2R
TooClose(pts, R) ==
  \E i \in 1..Len(pts) : \E j \in (i + 1)..Len(pts) : Dist2(pts[i], pts[j]) < 4 * Sq(R)
\* two of the centers are at distance 2R and none are closer
Touching(pts, R) ==
  /\ ~TooClose(pts, R)
  /\ \E i \in 1..Len(pts) : \E j \in (i + 1)..Len(pts) : Dist2(pts[i], pts[j]) = 4 * Sq(R)

\* the claim of C4 as it was made: centers closer than 2R are refused by both
\* constructors
C4_AsClaimed ==
  /\ BuiltManual /\ TooClose(last.args.points, last.args.R) => last.exc \in ValueErrors
  /\ GridRetained /\ TooClose(self.grid_xyz, self.R) => last.exc \in ValueErrors

\* C4: geo_setup_between_toroidal_surfaces raises a ValueError whenever two
\* retained centers are closer than 2R and raises the distance error only
\* then, so centers at exactly 2R pass the check; geo_setup_manual makes no
\* distance check and never raises the distance error, however close the
\* explicit centers are.
C4_DistanceRejection ==
  /\ GridRetained /\ TooClose(self.grid_xyz, self.R) =>
       last.exc \in {"ValueError: symmetry plane", "ValueError: coil distance"}
  /\ GridRetained /\ last.exc = "ValueError: coil distance" =>
       TooClose(self.grid_xyz, self.R)
  /\ GridRetained /\ Touching(self.grid_xyz, self.R) =>
       last.exc # "ValueError: coil distance"
  /\ BuiltManual => last.exc # "ValueError: coil distance"

\* the grid constructor has refused centers closer than 2R
C4_Witness ==
  /\ GridRetained
  /\ TooClose(self.grid_xyz, self.R)
  /\ last.exc = "ValueError: coil distance"
  /\ phase = "failed"

\* the azimuth of the center is exactly pi / nfp
OnHalfPeriodPlane(pt, nfp) ==
  CASE nfp = 1 -> pt[2] = 0 /\ pt[1] < 0
    [] nfp = 2 -> pt[1] = 0 /\ pt[2] > 0
    [] nfp = 4 -> pt[1] = pt[2] /\ pt[1] > 0
    [] OTHER -> FALSE

\* C5: a grid with a center on the plane of azimuth pi / nfp is refused with
\* a ValueError, by either constructor.
C5_HalfPeriodPlaneRejected ==
  /\ BuiltManual /\ (\E k \in 1..Len(last.args.points) :
                       OnHalfPeriodPlane(last.args.points[k], last.args.plasma_boundary.nfp))
       => last.exc \in ValueErrors
  /\ GridRetained /\ (\E k \in 1..Len(self.grid_xyz) :
                        OnHalfPeriodPlane(self.grid_xyz[k], self.nfp))
       => last.exc \in ValueErrors

\* the call of the worked example: centers (1, 0, 0) and (-1, 0, 0), R = 0.1,
\* nfp = 1, no stellarator symmetry, no keyword
WorkedExample ==
  /\ BuiltManual
  /\ last.args.points = << <<10, 0, 0>>, <<-10, 0, 0>> >>
  /\ last.args.R = 1
  /\ last.args.plasma_boundary.nfp = 1
  /\ last.args.plasma_boundary.stellsym = 0
  /\ last.args.kwargs = NoKw

\* C6: the construction of the worked example succeeds (and evaluate can then
\* be called on the grid).
C6_WorkedExampleBuilds == WorkedExample => last.exc = "none" /\ phase = "ready"

\* the attributes the constructors compute after the plasma-field shape check
ComputedAfterShapeCheck ==
  {"xyz_uniform", "grid_xyz_all", "coil_normals", "coil_normals_all", "alphas_total",
   "deltas_total", "L", "L_inv", "psi_total", "psi", "I_all", "I", "A_matrix", "Bn_PSC"}

\* C7: a Bn_plasma of a shape other than (nphi, ntheta) makes either
\* constructor raise at the shape check, with nothing of the coil grid, the
\* expansion, the inductance, the flux or the currents computed.
C7_ShapeRejectedAtCheck ==
  /\ BuiltManual \/ BuiltGrid
  /\ "Bn_plasma" \in DOMAIN last.args.kwargs
  /\ last.args.kwargs.Bn_plasma.shape #
       <<last.args.plasma_boundary.nphi, last.args.plasma_boundary.ntheta>>
  => /\ last.exc \in {"ValueError: shape", "ValueError: broadcast in allclose"}
     /\ self.attrs \cap ComputedAfterShapeCheck = {}

\* one of Nx, Ny, Nz of the call is not positive, Ny and Nz being Nx by default
NonPositiveDims(kw) ==
  LET Nx == Pop(kw, "Nx", 10)
  IN  Nx <= 0 \/ Pop(kw, "Ny", Nx) <= 0 \/ Pop(kw, "Nz", Nx) <= 0

\* C8: geo_setup_between_toroidal_surfaces called with one of Nx, Ny, Nz <= 0
\* raises a ValueError and has generated no grid point by then: neither the
\* uniform grid nor the retained centers exist.
C8_NonPositiveDimsRejected ==
  BuiltGrid /\ NonPositiveDims(last.args.kwargs) =>
    /\ last.exc \in ValueErrors
    /\ phase = "failed"
    /\ "xyz_uniform" \notin self.attrs
    /\ "grid_xyz" \notin self.attrs

\* Nx is positive, Nz is not, and the dimension check has raised
C8_Witness ==
  /\ BuiltGrid
  /\ Pop(last.args.kwargs, "Nx", 10) > 0
  /\ Pop(last.args.kwargs, "Ny", 10) > 0
  /\ Pop(last.args.kwargs, "Nz", 10) <= 0
  /\ last.exc = "ValueError: grid dimensions"
  /\ self.attrs \cap {"Nx", "xyz_uniform", "grid_xyz"} = {}

(***************************************************************************)
(* Properties of the expanded coil set                                     *)
(***************************************************************************)
\* num_psc * nfp * (2 if stellsym else 1)
ExpandedSize(s) == s.num_psc * s.nfp * (IF s.stellsym = 1 THEN 2 ELSE 1)

\* the normal of coil i of replica q: the normal of coil i, reflected for a
\* stellarator-symmetric replica and turned by the angle of the field period
ReplicaNormal(s, q, i) ==
  LET rep == ReplicaList(s.nfp, s.stell_list)[q + 1]
  IN  RotNormal(s.coil_normals[i], Phi0(s.nfp, rep.fp), rep.stell)

\* C9: on every grid, as constructed and after every evaluate or gradient
\* call, the expanded centers, normals, angles and the four derivative
\* factors have num_psc * nfp * (2 if stellsym else 1) entries, rows
\* q*num_psc .. (q+1)*num_psc-1 hold replica q of the centers and of the
\* normals, and the blocks 0 .. nfp*(1 or 2) - 1 were written once each, in
\* this order.
C9_ExpandedSetLayout ==
  phase = "ready" =>
    LET nn == self.num_psc
        nq == self.nfp * (IF self.stellsym = 1 THEN 2 ELSE 1)
    IN  /\ {Len(self.grid_xyz_all), Len(self.grid_xyz_all_normalized),
             Len(self.coil_normals_all), Len(self.alphas_total), Len(self.deltas_total),
             Len(self.aaprime_aa), Len(self.aaprime_dd), Len(self.ddprime_dd),
             Len(self.ddprime_aa)} = {ExpandedSize(self)}
        /\ self.grid_blocks = [q \in 1..nq |-> q - 1]
        /\ \A q \in 0..(nq - 1) :
             /\ BlockOf(self.grid_xyz_all, q, nn) = CenterBlock(self, q)
             /\ BlockOf(self.coil_normals_all, q, nn) =
                  [i \in 1..nn |-> ReplicaNormal(self, q, i)]

\* two coils expanded to four replicas each, after an orientation update
C9_Witness ==
  /\ phase = "ready"
  /\ calls > 0
  /\ self.num_psc = 2
  /\ self.nfp = 2
  /\ self.stellsym = 1
  /\ Len(self.grid_xyz_all) = 8
  /\ self.alphas # grid0.alphas

\* C10: on every grid, the first num_psc entries of the expanded centers and
\* normals are the centers and normals of the fundamental domain, and with
\* nfp = 1 and no stellarator symmetry the expanded centers are the centers.
C10_RestrictionRoundTrip ==
  phase = "ready" =>
    /\ BlockOf(self.grid_xyz_all, 0, self.num_psc) = self.grid_xyz
    /\ BlockOf(self.coil_normals_all, 0, self.num_psc) = self.coil_normals
    /\ (self.nfp = 1 /\ self.stellsym = 0 => self.grid_xyz_all = self.grid_xyz)

\* an expanded set larger than the fundamental domain, with turned coils
C10_Witness ==
  /\ phase = "ready"
  /\ self.nfp = 2
  /\ Len(self.grid_xyz_all) > self.num_psc
  /\ self.coil_normals # grid0.coil_normals
  /\ BlockOf(self.grid_xyz_all, 0, self.num_psc) = self.grid_xyz

(***************************************************************************)
(* Properties of the replicas and of the inductance matrix                 *)
(***************************************************************************)
\* the rotation of pt about the z axis by rot quarter turns
RotZ(pt, rot) ==
  << pt[1] * Cos4(rot) - pt[2] * Sin4(rot),
     pt[1] * Sin4(rot) + pt[2] * Cos4(rot),
     pt[3] >>
\* (x, s*y, s*z)
Mirror(pt, st) == <<pt[1], st * pt[2], st * pt[3]>>
\* the position of replica (fp, stell_list[si]) in the order fp-major, s-minor
ReplicaIndex(s, fp, si) == fp * Len(s.stell_list) + (si - 1)
\* the centers of replica number q, q = 0 .. nfp * Len(stell_list) - 1
ReplicaCenters(s, q) ==
  LET ns == Len(s.stell_list)
  IN  [i \in 1..s.num_psc |->
         RotZ(Mirror(s.grid_xyz[i], s.stell_list[(q % ns) + 1]),
              Phi0(s.nfp, q \div ns))]
\* the sum over the replicas, in this order, of the coupling kernel
ReplicaSumA(s) ==
  LET nn == s.num_psc
      Aq(q) == AKernel(ReplicaCenters(s, q), s.plasma_points,
                       BlockOf(s.alphas_total, q, nn), BlockOf(s.deltas_total, q, nn),
                       s.plasma_unitnormals, s.R)
  IN  CHOOSE A \in
        { [p \in 1..Len(s.plasma_points) |-> [j \in 1..nn |->
             FMul(2, SeqSum([q \in 1..NumReplicas(s) |-> T[q][p][j]]))]] :
          T \in {[q \in 1..NumReplicas(s) |-> Array(Aq(q - 1))]} } : TRUE
\* the sum over the replicas of the A-derivative kernel, each column weighted
\* with the derivative factors of its replica
ReplicaSumDA(s) ==
  LET nn == s.num_psc
      Dq(q) == DAKernel(ReplicaCenters(s, q), s.plasma_points,
                        BlockOf(s.alphas_total, q, nn), BlockOf(s.deltas_total, q, nn),
                        s.plasma_unitnormals, s.R)
      term(T, q, p, j) ==
        IF j <= nn
        THEN FAdd(FMul(T[q][p][j], s.aaprime_aa[(q - 1) * nn + j]),
                  FMul(T[q][p][nn + j], s.ddprime_aa[(q - 1) * nn + j]))
        ELSE FAdd(FMul(T[q][p][j], s.ddprime_dd[(q - 1) * nn + j - nn]),
                  FMul(T[q][p][j - nn], s.aaprime_dd[(q - 1) * nn + j - nn]))
  IN  CHOOSE D \in
        { [p \in 1..Len(s.plasma_points) |-> [j \in 1..(2 * nn) |->
             FMul(SeqSum([q \in 1..NumReplicas(s) |-> term(T, q, p, j)]), Pi)]] :
          T \in {[q \in 1..NumReplicas(s) |-> Array(Dq(q - 1))]} } : TRUE
\* the same for the psi-derivative kernel, with the factor 1/(N_TF nfp (stellsym+1))
ReplicaSumDPsi(s) ==
  LET nn == s.num_psc
      Pq(q) == DPsiKernel(ReplicaCenters(s, q),
                          BlockOf(s.alphas_total, q, nn), BlockOf(s.deltas_total, q, nn),
                          BlockOf(s.coil_normals_all, q, nn), s.quad_points_rho, s.R)
      term(T, q, j) ==
        IF j <= nn
        THEN FAdd(FMul(T[q][j], s.aaprime_aa[(q - 1) * nn + j]),
                  FMul(T[q][nn + j], s.ddprime_aa[(q - 1) * nn + j]))
        ELSE FAdd(FMul(T[q][j - nn], s.aaprime_dd[(q - 1) * nn + j - nn]),
                  FMul(T[q][j], s.ddprime_dd[(q - 1) * nn + j - nn]))
  IN  CHOOSE D \in
        { [j \in 1..(2 * nn) |->
             FMul(SeqSum([q \in 1..NumReplicas(s) |-> term(T, q, j)]),
                  FDiv(FDiv(FDiv(1, NumTFQuad), F(s.nfp)), F(s.stellsym + 1)))] :
          T \in {[q \in 1..NumReplicas(s) |-> Array(Pq(q - 1))]} } : TRUE

\* C11: on every grid the expanded center of coil i in replica (fp, s) is the
\* rotation by 2*pi*fp/nfp about z of (x, s*y, s*z), stored at block
\* fp * |stell_list| + (position of s), with stell_list = (+1) or (+1, -1);
\* the coupling matrix, the A-derivative and the psi-derivative are the sums
\* of their kernels over the replicas taken in this same order.
C11_ReplicaMapAndOrder ==
  phase = "ready" =>
    /\ self.stell_list = (IF self.stellsym = 1 THEN <<1, -1>> ELSE <<1>>)
    /\ \A fp \in 0..(self.nfp - 1) : \A si \in 1..Len(self.stell_list) :
         \A i \in 1..self.num_psc :
           self.grid_xyz_all[ReplicaIndex(self, fp, si) * self.num_psc + i] =
             RotZ(Mirror(self.grid_xyz[i], self.stell_list[si]), Phi0(self.nfp, fp))
    /\ self.A_matrix = ReplicaSumA(self)
    /\ A_deriv(self) = ReplicaSumDA(self)
    /\ psi_deriv(self) = ReplicaSumDPsi(self)

\* a gradient call on two coils with four replicas, the mirrored replica of
\* the second field period being a point of its own
C11_Witness ==
  /\ phase = "ready"
  /\ last.op = "least_squares_jacobian"
  /\ self.nfp = 2
  /\ self.stell_list = <<1, -1>>
  /\ self.num_psc = 2
  /\ self.grid_xyz_all[7] = RotZ(Mirror(self.grid_xyz[1], -1), 2)
  /\ self.grid_xyz_all[7] \notin {self.grid_xyz_all[1], self.grid_xyz_all[3],
                                  self.grid_xyz_all[5]}

\* C12: on every grid and after every evaluate or gradient call, whatever the
\* orientation, the inductance matrix over the expanded coil set is square
\* and L[i][j] = L[j][i] for all i, j.
C12_InductanceSymmetric ==
  phase = "ready" =>
    /\ Len(self.L) = ExpandedSize(self)
    /\ \A i \in 1..Len(self.L) :
         /\ Len(self.L[i]) = Len(self.L)
         /\ \A j \in 1..Len(self.L) : self.L[i][j] = self.L[j][i]

\* an orientation other than zero was installed by a call and two different
\* coils of the expanded set have a mutual inductance other than zero
C12_Witness ==
  /\ phase = "ready"
  /\ Returned("least_squares")
  /\ last.args # Zeros(Len(last.args))
  /\ \E i, j \in 1..Len(self.L) : i # j /\ self.L[i][j] # 0 /\ self.L[i][j] = self.L[j][i]

\* the claim as stated: the logarithm is taken of 8R/a - 2
C13_AsClaimed ==
  phase = "ready" =>
    \A i \in 1..Len(self.L) :
      self.L[i][i] =
        FMul(FMul(FMul(Ln(FSub(FDiv(FMul(8, F(self.R)), self.a), 2)), 4), Pi), F(self.R))

\* C13: every diagonal entry of L equals (log(8R/a) - 2) * 4*pi*R, the same
\* for every coil of the expanded set and for every orientation.
C13_DiagonalSelfInductance ==
  phase = "ready" =>
    \A i \in 1..Len(self.L) :
      self.L[i][i] =
        FMul(FMul(FMul(FSub(Ln(FDiv(FMul(8, F(self.R)), self.a)), 2), 4), Pi), F(self.R))

\* a grid of several coils after a call with a tilted orientation, its
\* diagonal the same as the constructor left it
C13_Witness ==
  /\ phase = "ready"
  /\ calls > 0
  /\ last.args # Zeros(Len(last.args))
  /\ Len(self.L) >= 4
  /\ \A i \in 1..Len(self.L) : self.L[i][i] = grid0.L[1][1]
  /\ self.L # grid0.L

\* the claim as stated: a = R/100 whatever the keywords
C14_AsClaimed ==
  phase = "ready" =>
    /\ self.a = FDiv(F(self.R), 100)
    /\ self.R = grid0.R
    /\ self.a = grid0.a

\* C14: the grid constructor sets a = R/100; the manual constructor sets a to
\* its keyword a when given and to R/100 otherwise, with R its argument; no
\* later evaluate or gradient call changes R or a.
C14_MinorRadius ==
  phase = "ready" =>
    /\ self.R = grid0.R
    /\ self.a = grid0.a
    /\ calls = 0 =>
         /\ self.a = (IF BuiltManual /\ "a" \in DOMAIN last.args.kwargs
                      THEN last.args.kwargs.a ELSE FDiv(F(self.R), 100))
         /\ BuiltManual => self.R = last.args.R

\* a manual grid given a = 1/25, not R/100, still holding it after the calls
C14_Witness ==
  /\ phase = "ready"
  /\ calls = MaxCalls
  /\ self.a = FDiv(1, 25)
  /\ self.a # FDiv(F(self.R), 100)

(***************************************************************************)
(* Properties of evaluate and gradient                                     *)
(***************************************************************************)
\* the attributes fixed at setup that the claim names
FixedAtSetup ==
  {"grid_xyz", "grid_xyz_all", "R", "a", "b_opt", "fac2_norm", "grid_normalization",
   "plasma_points", "plasma_unitnormals"}
\* the orientation, the quantities computed from it, and the history of losses
OrientationDerived ==
  {"alphas", "deltas", "coil_normals", "coil_normals_neg", "coil_normals_res",
   "coil_normals_all",
   "alphas_total", "deltas_total", "aaprime_aa", "aaprime_dd", "ddprime_dd", "ddprime_aa",
   "L", "flux_grid", "B_TF", "psi_total", "psi", "L_inv", "I_all", "I", "A_matrix",
   "Bn_PSC", "BdotN2_list"}

\* C15: after any evaluate and gradient calls the fundamental and expanded
\* centers, R, a, b_opt, fac2_norm, grid_normalization and the plasma points
\* and normals are as the constructor left them, and every attribute that
\* differs from the constructor's is the orientation or computed from it.
C15_SetupStateUntouched ==
  phase = "ready" =>
    /\ \A f \in FixedAtSetup : self[f] = grid0[f]
    /\ \A f \in DOMAIN self : self[f] # grid0[f] => f \in OrientationDerived

\* calls installed another orientation: the derived quantities moved, the
\* background vector is the constructor's
C15_Witness ==
  /\ phase = "ready"
  /\ calls = MaxCalls
  /\ self.alphas # grid0.alphas
  /\ self.L # grid0.L
  /\ self.Bn_PSC # grid0.Bn_PSC
  /\ Len(self.b_opt) > 0
  /\ self.b_opt = grid0.b_opt

\* fac2_norm * r^T * g*(G1 + G2) on the grid s, with r = (A*I + b_opt)*g,
\* G1[p][k] = dA[p][k] * I[coil of k] and
\* G2[p][k] = sum_m A[p][m] * (-Linv_ff[m][coil of k] * dpsi[k])
GradientFormula(s) ==
  LET nn      == s.num_psc
      np      == Len(s.plasma_points)
      gn      == s.grid_normalization
      coil(k) == ((k - 1) % nn) + 1
      r       == Array([p \in 1..np |->
                   FMul(FAdd(SeqSum([m \in 1..nn |-> FMul(s.A_matrix[p][m], s.I[m])]),
                             s.b_opt[p]), gn[p])])
      G1(dA, p, k) == FMul(dA[p][k], s.I[coil(k)])
      G2(Li, dpsi, p, k) ==
        SeqSum([m \in 1..nn |->
                  FMul(s.A_matrix[p][m], FMul(FNeg(Li[m][coil(k)]), dpsi[k]))])
  IN  CHOOSE v \in
        { [k \in 1..(2 * nn) |->
             FMul(s.fac2_norm,
                  SeqSum([p \in 1..np |->
                            FMul(r[p], FMul(gn[p], FAdd(G1(dA, p, k), G2(Li, dpsi, p, k))))]))] :
          dA \in {A_deriv(s)}, dpsi \in {psi_deriv(s)}, Li \in {Inv(s.L)} } : TRUE

\* C17: a gradient call returns a vector of length 2*num_psc, the entries for
\* the alphas first and those for the deltas second, equal to
\* fac2_norm * r^T * g*(G1 + G2) at the orientation it was called with.
C17_GradientFormula ==
  (phase = "ready" /\ Differentiated) =>
    /\ Len(last.ret) = 2 * self.num_psc
    /\ self.alphas = Slice(last.args, 0, self.num_psc)
    /\ self.deltas = Slice(last.args, self.num_psc, 2 * self.num_psc)
    /\ last.ret = GradientFormula(self)

\* a gradient call on several coils at a tilted orientation returned a vector
\* with an alpha entry and a delta entry other than zero
C17_Witness ==
  /\ phase = "ready"
  /\ Differentiated
  /\ self.num_psc = 2
  /\ last.args # Zeros(4)
  /\ \E k \in 1..2 : last.ret[k] # 0
  /\ \E k \in 3..4 : last.ret[k] # 0


\* the contribution of the dependence of L on the angles to the derivative
\* of the loss: with I_all = -L^(-1) psi_total / fac and dL_k the derivative
\* of L with respect to angle k, the currents change by -L^(-1) dL_k I_all
InductanceTerm(s) ==
  LET nn == s.num_psc
      np == Len(s.plasma_points)
      gn == s.grid_normalization
      r  == Array([p \in 1..np |->
              FMul(FAdd(SeqSum([m \in 1..nn |-> FMul(s.A_matrix[p][m], s.I[m])]),
                        s.b_opt[p]), gn[p])])
      dI(Li, dL, k) == VecScale(MatVec(Li, MatVec(dL[k], s.I_all)), FNeg(1))
      row(Li, dL, k) ==
        CHOOSE v \in
          { FMul(s.fac2_norm,
                 SeqSum([p \in 1..np |->
                   FMul(r[p], FMul(gn[p],
                     SeqSum([m \in 1..nn |-> FMul(s.A_matrix[p][m], d[m])])))])) :
            d \in {dI(Li, dL, k)} } : TRUE
  IN  CHOOSE v \in
        { [k \in 1..(2 * nn) |-> row(Li, dL, k)] :
          Li \in {Inv(s.L)}, dL \in {L_deriv(s)} } : TRUE

\* C16: without symmetry replicas (nfp = 1, stellsym off) a gradient call
\* returns the derivative of the loss that evaluate returns: the chain rule
\* through A, through psi and through L, each with the derivative the object
\* computes for it (A_deriv, psi_deriv, L_deriv).
C16_GradientIsDerivative ==
  (phase = "ready" /\ Differentiated /\ self.nfp = 1 /\ self.stellsym = 0) =>
    last.ret = VecAdd(GradientFormula(self), InductanceTerm(self))

\* kappas with a multiple of 2*pi (4 quarter turns) added to one entry
KappaShifts(kappas) ==
  {[kappas EXCEPT ![i] = @ + 4 * m] : i \in 1..Len(kappas), m \in {-1, 1}}
\* kappas with the angles of one coil replaced by (pi - alpha, delta + pi), or
\* with delta turned by a quarter
KappaTurns(kappas) ==
  LET nn == Len(kappas) \div 2
  IN  {[kappas EXCEPT ![i] = 2 - @, ![nn + i] = @ + 2] : i \in 1..nn}
        \cup {[kappas EXCEPT ![nn + i] = @ + 1] : i \in 1..nn}
\* (cos(alpha) sin(delta), -sin(alpha), cos(alpha) cos(delta)) for every coil
NormalsOf(kappas) ==
  [i \in 1..(Len(kappas) \div 2) |-> AngleNormal(kappas[i], kappas[(Len(kappas) \div 2) + i])]

\* C18: an evaluate at kappas returns what an evaluate of the same grid returns
\* at kappas with a multiple of 2*pi added to any one entry, and at any other
\* vector of angles that gives every coil the same normal.
C18_LossPeriodic ==
  (phase = "ready" /\ Evaluated) =>
    /\ \A k2 \in KappaShifts(last.args) :
         /\ NormalsOf(k2) = NormalsOf(last.args)
         /\ least_squares(grid0, k2).ret = last.ret
    /\ \A k2 \in KappaTurns(last.args) :
         NormalsOf(k2) = NormalsOf(last.args) => least_squares(grid0, k2).ret = last.ret

\* an evaluate at a tilted orientation; the same loss comes back with 2*pi
\* added to the tilted angle, although the stored angle is another, and with
\* other angles of the same normal
C18_Witness ==
  /\ phase = "ready"
  /\ Evaluated
  /\ last.args[1] = 1
  /\ LET k2 == [last.args EXCEPT ![1] = 5]
         r  == least_squares(grid0, k2)
     IN  r.ret = last.ret /\ r.obj.alphas # self.alphas
  /\ \E k2 \in KappaTurns(last.args) :
       /\ k2 # last.args
       /\ NormalsOf(k2) = NormalsOf(last.args)
       /\ least_squares(grid0, k2).ret = last.ret

\* the quantities computed from the orientation, without the angles themselves
DerivedOnly == OrientationDerived \ {"alphas", "deltas", "BdotN2_list"}

\* the array of the last call as it was passed, before the caller's write
KappasAsPassed == [kappas_array EXCEPT ![last.args[1]] = @ - 1]

\* C19: after an in-place modification of the caller's kappas array, without
\* a new call, the stored alphas and deltas are still those passed to the
\* last call and every derived quantity is the one computed from them.
C19_OrientationPrivate ==
  (phase = "ready" /\ last.op = "kappas[i] = v") =>
    /\ self.alphas = Slice(KappasAsPassed, 0, self.num_psc)
    /\ self.deltas = Slice(KappasAsPassed, self.num_psc, 2 * self.num_psc)
    /\ \A r \in {least_squares(grid0, KappasAsPassed).obj} :
         \A f \in DerivedOnly : self[f] = r[f]

\* C20: the list of losses is empty on the grid the constructor returns;
\* at any time it holds exactly the values the completed evaluate calls
\* returned, in call order, so its length is their number; gradient calls
\* and the caller's writes leave it alone.
C20_LossHistory ==
  /\ self.BdotN2_list = returned
  /\ (phase # "new" /\ calls = 0) => self.BdotN2_list = <<>>
  /\ Len(self.BdotN2_list) <= calls
  /\ Evaluated => (self.BdotN2_list # <<>> /\
                   last.ret = <<self.BdotN2_list[Len(self.BdotN2_list)]>>)

\* two evaluate calls returned different losses, the later one last
C20_Witness ==
  /\ phase = "ready"
  /\ Evaluated
  /\ Len(self.BdotN2_list) = 2
  /\ self.BdotN2_list[1] # self.BdotN2_list[2]
  /\ last.ret = <<self.BdotN2_list[2]>>

(***************************************************************************)
(* Properties of the BoozerAnalytic cache                                  *)
(***************************************************************************)
\* C21: whatever set_points, setter and read operations were made, every
\* array in the cache is the one the implementation computes from the
\* parameters and points the object holds now, and the read made last
\* returned that array.
C21_CacheNeverStale ==
  /\ \A q \in DOMAIN booz.cache : booz.cache[q] = BoozerImpl(booz, q)
  /\ blast.op \in BoozerQuantities => blast.ret = BoozerImpl(booz, blast.op)

\* K was read, K1 was set while K was in the cache, and K was read again:
\* the array returned is not the one of K1 = 0
C21_Witness ==
  /\ blast.op = "K"
  /\ "K" \in bstale
  /\ booz.K1 # 0
  /\ Len(blast.ret) > 0
  /\ blast.ret # BoozerImpl([booz EXCEPT !.K1 = 0], "K")

(***************************************************************************)
(* Properties of setup_orientations called on its own                      *)
(***************************************************************************)
\* the fluxes, currents and fields of s are those the angles kappas determine
FieldsConsistent(s, kappas) ==
  \A d \in {Determined(s, kappas)} :
    /\ s.psi_total = d.psi_total
    /\ s.psi = Slice(d.psi_total, 0, s.num_psc)
    /\ MatVec(d.L, s.I_all) = VecScale(d.psi_total, FNeg(FInv(s.fac)))
    /\ s.I = Slice(s.I_all, 0, s.num_psc)
    /\ s.A_matrix = d.A_matrix
    /\ s.Bn_PSC = MatVec(d.A_matrix, s.I)

\* the object after self.setup_orientations(kappas[:num_psc], kappas[num_psc:])
AfterSetupOrientations(s, kappas) ==
  setup_orientations(s, Slice(kappas, 0, s.num_psc), Slice(kappas, s.num_psc, Len(kappas)))

\* C22: on every grid, after setup_orientations with any angles returns, psi,
\* psi_total, I, I_all, A_matrix and Bn_PSC are those the new angles
\* determine, as the normals and L are.
C22_SetupOrientationsUpdatesAll ==
  phase = "ready" =>
    \A kappas \in KappaSet(self.num_psc) :
      \A s \in {AfterSetupOrientations(self, kappas)} :
        /\ s.L = Determined(s, kappas).L
        /\ FieldsConsistent(s, kappas)

\* the methods of the object that the body of a public operation invokes
MethodsInvoked(name) ==
  CASE name = "least_squares" ->
         {"setup_orientations", "update_psi", "setup_currents_and_fields"}
    [] name = "least_squares_jacobian" ->
         {"setup_orientations", "update_psi", "setup_currents_and_fields",
          "A_deriv", "psi_deriv"}
    [] OTHER -> {}

\* the returned gradient carries the contribution of L_deriv: where that
\* contribution is not zero, the result is not the sum of the A and psi terms
LDerivEntersGradient ==
  (phase = "ready" /\ Differentiated /\ self.nfp = 1 /\ self.stellsym = 0) =>
    \A t \in {InductanceTerm(self)} :
      t # Zeros(Len(t)) => last.ret # GradientFormula(self)

\* C23: L_deriv is used by the gradient path and only by it: a gradient call
\* evaluates L_deriv and its value enters the returned gradient, and an
\* evaluate call does not evaluate it.
C23_LDerivUsedByGradientOnly ==
  /\ Differentiated => "L_deriv" \in MethodsInvoked(last.op)
  /\ Evaluated => "L_deriv" \notin MethodsInvoked(last.op)
  /\ LDerivEntersGradient

\* the azimuth of the center equals the angle of the plane at rot quarter
\* turns modulo 2*pi or differs from it, modulo 2*pi, by less than
\* atan2(R, r); a center on the axis has azimuth 0 and half-width pi/2
WithinPlane(pt, R, rot) ==
  LET x    == pt[1]
      y    == pt[2]
      par  == x * Cos4(rot) + y * Sin4(rot)
      perp == y * Cos4(rot) - x * Sin4(rot)
      r2   == Sq(x) + Sq(y)
  IN  IF r2 = 0 THEN rot = 0
      ELSE par > 0 /\ Sq(perp) * r2 < Sq(R) * Sq(par)

\* one of the centers is within the half-width of one of the nfp planes
CenterNearPlane(pts, R, nfp) ==
  \E k \in 1..Len(pts) : \E i \in 0..(nfp - 1) : WithinPlane(pts[k], R, Phi0(nfp, i))

\* the plasma field array passed the shape check, which precedes the plane check
ShapeAccepted == last.exc \notin {"ValueError: shape", "ValueError: broadcast in allclose"}

\* C24: in both constructors a center whose azimuth equals the angle of one of
\* the planes 2*pi*i/nfp modulo 2*pi, or is within atan2(R, r) of it, makes
\* construction raise the symmetry-plane error, also for the planes beyond pi,
\* near which the azimuth of a center is reported as a negative angle.
C24_PlaneRejection ==
  /\ (BuiltManual /\ ShapeAccepted
        /\ CenterNearPlane(last.args.points, last.args.R, last.args.plasma_boundary.nfp))
       => last.exc = "ValueError: symmetry plane"
  /\ (GridRetained /\ "alphas" \in self.attrs /\ CenterNearPlane(self.grid_xyz, self.R, self.nfp))
       => last.exc = "ValueError: symmetry plane"

\* the claim of C25 as it was made: after a successful construction by
\* either constructor no two coils of the expanded set, replicas included,
\* are closer than 2R
C25_AsClaimed ==
  phase = "ready" => ~TooClose(self.grid_xyz_all, self.R)

\* the centers of symmetry replica q (0-based) within grid_xyz_all
ReplicaBlock(s, q) == BlockOf(s.grid_xyz_all, q, s.num_psc)

\* C25: after a successful construction by geo_setup_between_toroidal_surfaces
\* every two distinct coils of the fundamental domain, and every two distinct
\* coils of one and the same symmetry replica, have centers at least 2R apart.
\* Coils of different replicas are not compared, and geo_setup_manual
\* compares no centers at all.
C25_CoilsOfOneReplicaApart ==
  (BuiltGrid /\ phase = "ready") =>
    /\ ~TooClose(self.grid_xyz, self.R)
    /\ \A q \in 0..(NumReplicas(self) - 1) : ~TooClose(ReplicaBlock(self, q), self.R)

\* a grid of several coils with symmetry replicas was built between the surfaces
C25_Witness ==
  /\ BuiltGrid
  /\ phase = "ready"
  /\ self.num_psc >= 2
  /\ NumReplicas(self) >= 2

\* the grid dimensions passed the validation and the uniform-grid builder ran
BuilderRan == BuiltGrid /\ "xyz_uniform" \in self.attrs

\* the azimuth of (X, Y) is in [0, pi/2], as it is for every azimuth in
\* [0, pi/nfp) with nfp > 1
InQuarterSector(pt) == pt[1] >= 0 /\ pt[2] >= 0

\* C26: in grid mode, for every nfp > 1, the uniform-grid builder completes
\* and the grid points it retains are those with an azimuth phi in
\* 0 <= phi < pi/nfp minus the coil-radius margin; the others are discarded.
C26_SectorRetained ==
  (BuilderRan /\ self.nfp > 1) =>
    /\ last.exc # "UnboundLocalError: phi2"
    /\ \A k \in 1..Len(self.xyz_uniform) :
         /\ InQuarterSector(self.xyz_uniform[k])
         /\ ~OutOfSector(self.nfp, self.xyz_uniform[k][1], self.xyz_uniform[k][2], self.R)

\* 2 * x for a float x
Twice(x) == IF x = Inf THEN Inf ELSE 2 * x

\* C27: in grid mode, for every nfp, the coil radius chosen by the builder
\* satisfies 2R <= min(dx, dy, dz), so that neighbouring grid coils of radius
\* R are at least 2R apart.
C27_RadiusWithinSpacing ==
  BuilderRan => Twice(self.R) <= Min(self.dx, Min(self.dy, self.dz))

\* the evaluator the flag interpolated_field of the last construction asks for
RequestedField ==
  IF Pop(last.args.kwargs, "interpolated_field", FALSE)
  THEN "InterpolatedField" ELSE "BiotSavart"

\* C28: in both constructors the field evaluator stored on the grid as B_TF,
\* which every later flux and background-field computation uses, is the
\* InterpolatedField built from the TF coils when interpolated_field is true
\* and the direct Biot-Savart evaluator when it is false.
C28_FieldEvaluatorAsRequested ==
  ((BuiltManual \/ BuiltGrid) /\ "B_TF" \in self.attrs) =>
    self.B_TF.kind = RequestedField

\* the angles of the normals of the moment: those of the construction, or
\* those of the last evaluate or gradient call
NormalsJustSet ==
  \/ (BuiltManual \/ BuiltGrid) /\ phase = "ready"
  \/ Evaluated
  \/ Differentiated
AngleOfNormal(i) ==
  IF Evaluated \/ Differentiated
  THEN [a |-> last.args[i], d |-> last.args[self.num_psc + i]]
  ELSE [a |-> self.alphas[i], d |-> self.deltas[i]]

\* component c of the normal with angles (a, d) is computed with a set sign
\* bit and close to zero: -0.0 or a negative rounding residue
NegativeNearZero(a, d, c) == AngleNormal(a, d)[c] = 0 /\ NormalSign(a, d)[c]

\* component c of the normal of coil i is as computed from the angles (a, d)
AsComputed(i, a, d, c) ==
  /\ self.coil_normals[i][c] = AngleNormal(a, d)[c]
  /\ self.coil_normals_neg[i][c] = NormalSign(a, d)[c]
  /\ self.coil_normals_res[i][c] = NormalResidue(a, d)[c]

\* the claim of C29 as it was made: a component computed as negative and
\* close to zero is +0.0 afterwards
C29_AsClaimed ==
  NormalsJustSet =>
    \A i \in 1..self.num_psc : \A c \in 1..3 :
      \A g \in {AngleOfNormal(i)} :
        IF NegativeNearZero(g.a, g.d, c)
        THEN /\ self.coil_normals[i][c] = 0
             /\ ~self.coil_normals_neg[i][c]
             /\ ~self.coil_normals_res[i][c]
        ELSE AsComputed(i, g.a, g.d, c)

\* C29: after construction and after every orientation update, every
\* component of a fundamental-domain coil normal that was computed with a set
\* sign bit and close to zero has had its sign flipped, so -0.0 has become
\* +0.0 and a negative rounding residue has become the positive residue of
\* the same magnitude; every other component is as computed.
C29_NearZeroSignFlipped ==
  NormalsJustSet =>
    \A i \in 1..self.num_psc : \A c \in 1..3 :
      \A g \in {AngleOfNormal(i)} :
        IF NegativeNearZero(g.a, g.d, c)
        THEN /\ self.coil_normals[i][c] = 0
             /\ ~self.coil_normals_neg[i][c]
             /\ self.coil_normals_res[i][c] = NormalResidue(g.a, g.d)[c]
        ELSE AsComputed(i, g.a, g.d, c)

\* a grid was built whose first normal has a component computed as a negative
\* residue, one computed as -0.0 and one that is -1
C29_Witness ==
  /\ NormalsJustSet
  /\ self.num_psc >= 1
  /\ \E c \in 1..3 : /\ NegativeNearZero(AngleOfNormal(1).a, AngleOfNormal(1).d, c)
                     /\ self.coil_normals_res[1][c]
  /\ \E c \in 1..3 : /\ NegativeNearZero(AngleOfNormal(1).a, AngleOfNormal(1).d, c)
                     /\ ~self.coil_normals_res[1][c]
  /\ \E c \in 1..3 : self.coil_normals[1][c] = -1 /\ self.coil_normals_neg[1][c]

\* C30: for every (Nx, Ny, Nz) that passes the validation of the grid
\* dimensions, the spacings dx, dy, dz of the uniform-grid builder are not the
\* result of a division by zero, and the coil radius R derived from them is
\* finite.
C30_SpacingsWellDefined ==
  BuilderRan =>
    /\ self.Nx > 0 /\ self.Ny > 0 /\ self.Nz > 0
    /\ self.dx # Inf /\ self.dy # Inf /\ self.dz # Inf
    /\ self.R # Inf

============================================================================
